---- MODULE Spec2Model ----
(***************************************************************************)
(* Model of the request handlers of raphael-starterkit-v1.                *)
(*                                                                         *)
(* POST /api/generate-pdf (src/app/api/generate-pdf/route.ts, 31-189) is  *)
(* an async function: every `await` is a suspension point at which other  *)
(* requests run.  One action below is one stretch of the handler between  *)
(* two suspension points, together with the outcome of the awaited call.  *)
(* The database tables `customers` and `credits_history` and the module   *)
(* state of the lazy Puppeteer loader (src/unnamed/part_000, 36-64) are   *)
(* shared by all requests.                                                 *)
(***************************************************************************)
EXTENDS Integers, Sequences, FiniteSets, TLC

(* ------------------------------ bounds -------------------------------- *)

\* Requests the model lets arrive; any of them may be in flight together.
NumReqs == 2

\* Largest balance a customer starts with.
MaxCredits == 2

\* Imports of the renderer module that the model lets start.
MaxLoads == 2

(* ------------------------------ values -------------------------------- *)

Users == {"u1", "u2"}

NoUser == "none"

Reqs == 1..NumReqs

\* customers.id, the key credits_history.customer_id refers to.
CustomerId(u) == <<"customer", u>>

NoCustomer == [id |-> <<"customer", NoUser>>, credits |-> -1, present |-> FALSE]

\* A value a response body does not carry.
Absent == -1

\* Outcomes of an awaited database call: data returned, an error returned
\* in the result object, or an exception thrown by the client.
DbOutcomes == {"ok", "error", "throw"}

Bodies == [json : BOOLEAN, nameData : BOOLEAN, userData : BOOLEAN]

VARIABLES
    customers,              \* table customers: user_id -> [id, credits]
    credits_history,        \* table credits_history: sequence of rows
    req,                    \* per slot: the handler's locals and position
    puppeteer,              \* part_000:36  module loaded (non-null)
    isPuppeteerLoading,     \* part_000:37
    puppeteerLoadPromise,   \* part_000:38  0 = null, else index into loads
    loads,                  \* the import promises created so far
    initial,                \* history: the balances the run started with
    overlapped              \* history: a balance read happened while another
                            \* request of that user held an unwritten read

\* The state of the PDF route.
pdfVars == <<customers, credits_history, req, puppeteer, isPuppeteerLoading,
             puppeteerLoadPromise, loads, initial, overlapped>>

VARIABLES
    errIn,                  \* part_001:89  handleError's argument `error`
    errCtx,                 \* part_001:89  handleError's argument `context`
    errOut,                 \* part_001:89  the AppError handleError returned
    errPrev,                \* the call of handleError before this one
    created,                \* part_001:62  a call of createError
    errResp                 \* part_001:429 what a wrapped handler responded

\* The state of the error classifier.
errVars == <<errIn, errCtx, errOut, errPrev, created, errResp>>

VARIABLES
    cache,                  \* part_000:190 MemoryCache.cache: key -> CacheEntry
    now,                    \* Date.now() in ms
    cleanupInterval,        \* part_000:191 TRUE while the sweep timer is set
    lastCall,               \* the latest call on the cache and what it returned
    lastSet                 \* history: per key, the latest set() that no
                            \* delete()/clear() has followed

\* The state of the in-memory cache.
cacheVars == <<cache, now, cleanupInterval, lastCall, lastSet>>

VARIABLES
    name_generation_logs,   \* table name_generation_logs, oldest row first
    hist,                   \* per slot: the history handler's locals
    served,                 \* the latest response of the history route
    changedSince            \* history: per user, the user's rows changed
                            \* after the read behind the cached response

\* The state of the generation-history route.
histVars == <<name_generation_logs, hist, served, changedSince>>

VARIABLES
    NODE_ENV,               \* process.env.NODE_ENV
    CREEM_API_URL,          \* process.env.CREEM_API_URL
    CREEM_API_KEY,          \* process.env.CREEM_API_KEY
    checkout,               \* the checkout handler's locals and position
    sessions,               \* the calls of createCheckoutSession so far
    analytics               \* the analytics handler's locals and position

VARIABLES
    pdfCalls,               \* the calls of generatePDF: position and browser
    wrapped                 \* the calls of a function wrapped by withCache

\* The environment of the process.
envVars == <<NODE_ENV, CREEM_API_URL, CREEM_API_KEY>>

\* The calls of the utilities generatePDF and withCache made on their own.
utilVars == <<pdfCalls, wrapped>>

\* The state of the checkout and analytics routes, and of those calls.
apiVars == <<checkout, sessions, analytics, utilVars>>

\* The state outside the PDF route, which its handler never touches.
extVars == <<errVars, cacheVars, histVars, envVars, apiVars>>

vars == <<pdfVars, extVars>>

dbVars == <<customers, credits_history>>

loaderVars == <<puppeteer, isPuppeteerLoading, puppeteerLoadPromise, loads>>

(* ----------------------------- responses ------------------------------ *)

NoResponse ==
    [status |-> 0, kind |-> "none", creditsRequired |-> Absent,
     currentCredits |-> Absent, details |-> FALSE]

JsonError(status) ==
    [status |-> status, kind |-> "json", creditsRequired |-> Absent,
     currentCredits |-> Absent, details |-> FALSE]

\* route.ts:170-176 and 181-187: the 500 bodies carry `details`.
JsonErrorDetails(status) ==
    [status |-> status, kind |-> "json", creditsRequired |-> Absent,
     currentCredits |-> Absent, details |-> TRUE]

\* The balance reported one too high.
CurrentCredits_Required(customer) ==
    IF ~customer.present THEN 0 ELSE customer.credits + 1

\* route.ts:102  customer?.credits || 0
CurrentCredits(customer) ==
    IF ~customer.present THEN 0
    ELSE IF customer.credits = 0 THEN 0 ELSE customer.credits

\* route.ts:98-105
InsufficientCreditsResponse(customer) ==
    [status |-> 403, kind |-> "json", creditsRequired |-> 1,
     currentCredits |-> CurrentCredits(customer), details |-> FALSE]

\* route.ts:159-166
PdfResponse ==
    [status |-> 200, kind |-> "pdf", creditsRequired |-> Absent,
     currentCredits |-> Absent, details |-> FALSE]

(* --------------------------- request locals --------------------------- *)

IdleReq ==
    [pc |-> "idle", auth |-> "none", authError |-> FALSE, user |-> NoUser,
     body |-> [json |-> TRUE, nameData |-> TRUE, userData |-> TRUE],
     available |-> "unknown", fetchOutcome |-> "none",
     customer |-> NoCustomer, awaiting |-> 0, rendered |-> "none",
     reads |-> 0, renders |-> 0, updates |-> 0, inserts |-> 0,
     updateOutcome |-> "none", insertOutcome |-> "none",
     resp |-> NoResponse]

\* A request of user u holds a balance read it has not yet written back.
InWindow(q, u) ==
    /\ req[q].user = u
    /\ req[q].pc \in {"render", "update"}


(* ------------------------- error classifier --------------------------- *)
(* src/unnamed/part_001.  A JavaScript value handed to handleError is a    *)
(* record: what `typeof` and `instanceof` say about it, and the fields of  *)
(* AppError it carries.  Strings are strings; includes() and toLowerCase() *)
(* work on their characters.                                               *)

\* An optional field that is not set.
Undefined == "undefined"

\* part_001:27-36  the fields of AppError, on any thrown value.
JsValue(isObject, isError, typeIsString, userMessageIsString, type, severity, message, userMessage, code, suggestions, retryable) ==
    [kind |-> "value", isObject |-> isObject, isError |-> isError,
     typeIsString |-> typeIsString, userMessageIsString |-> userMessageIsString,
     type |-> type, severity |-> severity, message |-> message,
     userMessage |-> userMessage, code |-> code, suggestions |-> suggestions,
     retryable |-> retryable]

\* No value: handleError has not been called, or has not returned.
NoValue ==
    [kind |-> "none", isObject |-> FALSE, isError |-> FALSE,
     typeIsString |-> FALSE, userMessageIsString |-> FALSE,
     type |-> Undefined, severity |-> Undefined, message |-> Undefined,
     userMessage |-> Undefined, code |-> Undefined, suggestions |-> <<>>,
     retryable |-> FALSE]

\* part_001:89  the optional `context` argument.
NoContext == [given |-> FALSE, text |-> ""]

Context(text) == [given |-> TRUE, text |-> text]

UpperCaseLetters == "ABCDEFGHIJKLMNOPQRSTUVWXYZ"

LowerCaseLetters == "abcdefghijklmnopqrstuvwxyz"

\* String.prototype.toLowerCase on one character.
LowerChar(c) ==
    IF \E i \in 1..Len(UpperCaseLetters) : SubSeq(UpperCaseLetters, i, i) = c
    THEN LET i == CHOOSE j \in 1..Len(UpperCaseLetters) :
                      SubSeq(UpperCaseLetters, j, j) = c
         IN  SubSeq(LowerCaseLetters, i, i)
    ELSE c

RECURSIVE ToLowerCase(_)
\* part_001:115-116  String.prototype.toLowerCase
ToLowerCase(str) ==
    IF Len(str) = 0 THEN ""
    ELSE LowerChar(SubSeq(str, 1, 1)) \o ToLowerCase(SubSeq(str, 2, Len(str)))

\* part_001:119  String.prototype.includes
Includes(str, sub) ==
    \E i \in 1..(Len(str) - Len(sub) + 1) :
        SubSeq(str, i, i + Len(sub) - 1) = sub

\* part_001:50-56
IsAppError(error) ==
    /\ error.isObject
    /\ error.typeIsString
    /\ error.userMessageIsString

\* part_001:278-295
GetDefaultSeverity(type) ==
    CASE type = "validation" -> "low"
      [] type \in {"rate_limit", "network", "external_service"} -> "medium"
      [] type \in {"authentication", "authorization", "payment", "database"} -> "high"
      [] OTHER -> "critical"

\* getDefaultRetryable with payment added to the kinds not worth retrying.
GetDefaultRetryable_PaymentFinal(type) ==
    CASE type \in {"validation", "authentication", "authorization",
                   "payment"} -> FALSE
      [] OTHER -> TRUE

\* part_001:300-314
GetDefaultRetryable(type) ==
    CASE type \in {"validation", "authentication", "authorization"} -> FALSE
      [] OTHER -> TRUE

\* part_001:66-72  the options argument of createError.
Options(code, suggestions, hasRetryable, retryable, severity) ==
    [code |-> code, suggestions |-> suggestions, hasRetryable |-> hasRetryable,
     retryable |-> retryable, severity |-> severity]

\* part_001:62-84
CreateError(type, userMessage, technicalMessage, options) ==
    JsValue(TRUE, FALSE, TRUE, TRUE,
            type,
            IF options.severity # Undefined THEN options.severity
            ELSE GetDefaultSeverity(type),
            IF technicalMessage # Undefined /\ technicalMessage # ""
            THEN technicalMessage ELSE userMessage,
            userMessage,
            options.code,
            options.suggestions,
            IF options.hasRetryable THEN options.retryable
            ELSE GetDefaultRetryable(type))

\* part_001:119-120
IsAuthentication(message) ==
    \/ Includes(message, "unauthorized") \/ Includes(message, "authentication")
    \/ Includes(message, "invalid token") \/ Includes(message, "jwt")

\* part_001:134-135
IsAuthorization(message) ==
    \/ Includes(message, "forbidden") \/ Includes(message, "access denied")
    \/ Includes(message, "insufficient permissions")

\* part_001:148-149
IsRateLimit(message) ==
    \/ Includes(message, "rate limit") \/ Includes(message, "too many requests")
    \/ Includes(message, "quota exceeded")

\* The payment rule reading the message only.
IsPayment_MessageOnly(message, contextLower) ==
    \/ Includes(message, "payment") \/ Includes(message, "billing")
    \/ Includes(message, "creem")

\* part_001:167-168
IsPayment(message, contextLower) ==
    \/ Includes(contextLower, "payment") \/ Includes(contextLower, "checkout")
    \/ Includes(message, "payment") \/ Includes(message, "billing")
    \/ Includes(message, "creem")

\* part_001:187-188
IsValidation(message) ==
    \/ Includes(message, "validation") \/ Includes(message, "invalid")
    \/ Includes(message, "required") \/ Includes(message, "bad request")

\* part_001:207-208
IsNetwork(message) ==
    \/ Includes(message, "network") \/ Includes(message, "fetch")
    \/ Includes(message, "connection") \/ Includes(message, "timeout")

\* part_001:227-229
IsDatabase(message, contextLower) ==
    \/ Includes(contextLower, "database") \/ Includes(contextLower, "supabase")
    \/ Includes(message, "database") \/ Includes(message, "constraint")
    \/ Includes(message, "duplicate")

\* part_001:243-244
IsExternalService(message, contextLower) ==
    \/ Includes(contextLower, "openai") \/ Includes(contextLower, "generation")
    \/ Includes(message, "openai") \/ Includes(message, "ai")
    \/ Includes(message, "api")

\* part_001:121-130
AuthenticationError(errorMessage) ==
    CreateError("authentication", "Please sign in to continue.", errorMessage,
        Options("AUTH_REQUIRED",
                <<"Sign in to your account", "Check if your session has expired">>,
                TRUE, FALSE, Undefined))

\* part_001:136-144
AuthorizationError(errorMessage) ==
    CreateError("authorization",
        "You don't have permission to perform this action.", errorMessage,
        Options("ACCESS_DENIED", <<>>, TRUE, FALSE, Undefined))

\* part_001:150-163
RateLimitError(errorMessage) ==
    CreateError("rate_limit",
        "You've made too many requests. Please wait a moment before trying again.",
        errorMessage,
        Options("RATE_LIMIT_EXCEEDED",
                <<"Wait a few minutes before trying again",
                  "Consider upgrading your plan for higher limits">>,
                TRUE, TRUE, "medium"))

\* part_001:169-183
PaymentError(errorMessage) ==
    CreateError("payment",
        "Payment processing failed. Please check your payment details and try again.",
        errorMessage,
        Options("PAYMENT_FAILED",
                <<"Check your payment method details",
                  "Ensure you have sufficient funds",
                  "Try a different payment method">>,
                TRUE, TRUE, "high"))

\* part_001:189-203
ValidationError(errorMessage) ==
    CreateError("validation", "Please check your input and try again.",
        errorMessage,
        Options("VALIDATION_ERROR",
                <<"Double-check all form fields",
                  "Ensure all required fields are filled",
                  "Check for any invalid characters">>,
                TRUE, FALSE, "low"))

\* part_001:209-223
NetworkError(errorMessage) ==
    CreateError("network",
        "Connection problem. Please check your internet connection and try again.",
        errorMessage,
        Options("NETWORK_ERROR",
                <<"Check your internet connection",
                  "Try refreshing the page",
                  "Wait a moment and try again">>,
                TRUE, TRUE, "medium"))

\* part_001:230-239
DatabaseError(errorMessage) ==
    CreateError("database", "Data storage error. Please try again.",
        errorMessage,
        Options("DATABASE_ERROR", <<>>, TRUE, TRUE, "high"))

\* part_001:245-259
ExternalServiceError(errorMessage) ==
    CreateError("external_service",
        "AI service is temporarily unavailable. Please try again in a few moments.",
        errorMessage,
        Options("EXTERNAL_SERVICE_ERROR",
                <<"Wait a few minutes and try again",
                  "Try refreshing the page",
                  "Contact support if the problem persists">>,
                TRUE, TRUE, "medium"))

\* The default with createError's own severity and no suggestions.
DefaultInternalError_Bare(errorMessage) ==
    CreateError("internal", "Something went wrong. Please try again.",
        errorMessage,
        Options(Undefined, <<>>, TRUE, TRUE, Undefined))

\* part_001:262-272
DefaultInternalError(errorMessage) ==
    CreateError("internal", "Something went wrong. Please try again.",
        errorMessage,
        Options(Undefined,
                <<"Refresh the page and try again",
                  "Contact support if the problem persists">>,
                TRUE, TRUE, "high"))

\* part_001:98-108  a thrown value that is no Error.
UnknownError(error) ==
    CreateError("internal", "An unexpected error occurred. Please try again.",
        "Unknown error: " \o error.message,
        Options(Undefined,
                <<"Refresh the page and try again",
                  "Check your internet connection">>,
                TRUE, TRUE, "high"))

\* part_001:116  context?.toLowerCase() || ''
ContextLower(context) ==
    IF context.given THEN ToLowerCase(context.text) ELSE ""

\* The rules with validation tested before payment.
ClassifyError_ValidationFirst(error, context) ==
    LET message == ToLowerCase(error.message)
        contextLower == ContextLower(context)
    IN  IF IsAuthentication(message) THEN AuthenticationError(error.message)
        ELSE IF IsAuthorization(message) THEN AuthorizationError(error.message)
        ELSE IF IsRateLimit(message) THEN RateLimitError(error.message)
        ELSE IF IsValidation(message) THEN ValidationError(error.message)
        ELSE IF IsPayment(message, contextLower) THEN PaymentError(error.message)
        ELSE IF IsNetwork(message) THEN NetworkError(error.message)
        ELSE IF IsDatabase(message, contextLower) THEN DatabaseError(error.message)
        ELSE IF IsExternalService(message, contextLower)
             THEN ExternalServiceError(error.message)
        ELSE DefaultInternalError(error.message)

\* part_001:114-273
ClassifyError(error, context) ==
    LET message == ToLowerCase(error.message)
        contextLower == ContextLower(context)
    IN  IF IsAuthentication(message) THEN AuthenticationError(error.message)
        ELSE IF IsAuthorization(message) THEN AuthorizationError(error.message)
        ELSE IF IsRateLimit(message) THEN RateLimitError(error.message)
        ELSE IF IsPayment(message, contextLower) THEN PaymentError(error.message)
        ELSE IF IsValidation(message) THEN ValidationError(error.message)
        ELSE IF IsNetwork(message) THEN NetworkError(error.message)
        ELSE IF IsDatabase(message, contextLower) THEN DatabaseError(error.message)
        ELSE IF IsExternalService(message, contextLower)
             THEN ExternalServiceError(error.message)
        ELSE DefaultInternalError(error.message)

\* handleError that remembers: once it has classified a failure, every later
\* failure it classifies is reported as critical.
HandleError_Escalating(error, context) ==
    IF IsAppError(error) THEN error
    ELSE IF error.isError
         THEN IF errPrev.called
              THEN [ClassifyError(error, context) EXCEPT !.severity = "critical"]
              ELSE ClassifyError(error, context)
    ELSE UnknownError(error)

\* handleError with the instanceof test ahead of the typed-error test.
HandleError_ErrorFirst(error, context) ==
    IF error.isError THEN ClassifyError(error, context)
    ELSE IF IsAppError(error) THEN error
    ELSE UnknownError(error)

\* part_001:89-109
HandleError(error, context) ==
    IF IsAppError(error) THEN error
    ELSE IF error.isError THEN ClassifyError(error, context)
    ELSE UnknownError(error)

\* part_001:6-18  enum ErrorType
ErrorTypes ==
    {"validation", "authentication", "authorization", "rate_limit",
     "payment", "external_service", "database", "network", "internal",
     "not_found", "conflict"}

\* part_001:33  error.details, which most errors do not carry.
Details(error) ==
    IF "details" \in DOMAIN error THEN error.details ELSE Undefined

\* JSON.stringify leaves out a field whose value is undefined.
Field(name, value, defined) ==
    IF defined THEN name :> value ELSE <<>>

\* getStatusCode with not_found answered as a server error.
GetStatusCode_NotFound500(type) ==
    CASE type = "validation" -> 400
      [] type = "authentication" -> 401
      [] type = "authorization" -> 403
      [] type = "conflict" -> 409
      [] type = "rate_limit" -> 429
      [] OTHER -> 500

\* part_001:464-482
GetStatusCode(type) ==
    CASE type = "validation" -> 400
      [] type = "authentication" -> 401
      [] type = "authorization" -> 403
      [] type = "not_found" -> 404
      [] type = "conflict" -> 409
      [] type = "rate_limit" -> 429
      [] OTHER -> 500

\* part_001:319-331  the JSON body: the fields that are defined.
ToErrorResponse(error, requestId, env) ==
    [error |-> error.userMessage, userMessage |-> error.userMessage,
     type |-> error.type, retryable |-> error.retryable,
     timestamp |-> "now", requestId |-> requestId]
    @@ Field("code", error.code, error.code # Undefined)
    @@ Field("details", Details(error),
             env = "development" /\ Details(error) # Undefined)
    @@ Field("suggestions", error.suggestions, error.suggestions # <<>>)

(* --------------------------- In-memory cache -------------------------- *)

\* Times run from 0 to MaxTime ms; explicit TTLs from 0 to MaxTtl ms.
MaxTime == 2
MaxTtl == 1

TTLs == 0..MaxTtl

\* part_000:203  the default of set()'s ttlMs parameter.
DefaultTtl == 5 * 60 * 1000

\* part_000:305-310
CACHE_TTL ==
    [SHORT |-> 5 * 60 * 1000, MEDIUM |-> 15 * 60 * 1000,
     LONG |-> 60 * 60 * 1000, VERY_LONG |-> 24 * 60 * 60 * 1000]

\* JavaScript's null, as get() returns it.
Null == [null |-> TRUE]

\* The cached payloads of the direct calls: two objects.
Data == {[value |-> "v1"], [value |-> "v2"]}

\* part_000:376-377  UserDataCache.generateKey
\* One key for all users.
UserDataCache_generateKey_Shared(userId, dataType) ==
    "user_data:" \o dataType

UserDataCache_generateKey(userId, dataType) ==
    "user_data:" \o userId \o ":" \o dataType

\* part_000:359-360  PopularNamesCache.generateKey, with the count as text.
PopularNamesCache_generateKey(gender, count) ==
    "popular_names:" \o gender \o ":" \o count

\* The keys the direct calls use.
Keys ==
    {UserDataCache_generateKey("u1", "profile"),
     PopularNamesCache_generateKey("f", "5")}

\* The arguments given to invalidateCachePattern.
Patterns == {"", "u1", "a", "xyz"}

\* part_000:183-187  CacheEntry
CacheEntry(data, timestamp, ttl) ==
    [data |-> data, timestamp |-> timestamp, ttl |-> ttl]

\* part_000:190  new Map()
EmptyMap == <<>>

\* Map.prototype.set
MapSet(map, key, value) == (key :> value) @@ map

\* Map.prototype.delete
MapDelete(map, key) == [k \in (DOMAIN map) \ {key} |-> map[k]]

\* part_000:224, 242, 270  the expiry test.
IsExpired_AtTtl(entry, t) == t - entry.timestamp >= entry.ttl
IsExpired(entry, t) == t - entry.timestamp > entry.ttl

\* part_000:203-211  set(key, data, ttlMs) at time t: the map afterwards.
SetMap_KeepFirst(map, key, data, ttlMs, t) ==
    IF key \in DOMAIN map THEN map
    ELSE MapSet(map, key, CacheEntry(data, t, ttlMs))
SetMap(map, key, data, ttlMs, t) == MapSet(map, key, CacheEntry(data, t, ttlMs))

\* part_000:216-230  get(key) at time t: what it returns.
GetReturn(map, key, t) ==
    IF key \notin DOMAIN map THEN Null
    ELSE IF IsExpired(map[key], t) THEN Null
    ELSE map[key].data

\* part_000:216-230  get(key) at time t: the map afterwards.
GetMap(map, key, t) ==
    IF key \in DOMAIN map /\ IsExpired(map[key], t)
    THEN MapDelete(map, key)
    ELSE map

\* part_000:235-248  has(key) at time t: what it returns.
HasReturn_Present(map, key, t) == key \in DOMAIN map
HasReturn(map, key, t) ==
    IF key \notin DOMAIN map THEN FALSE
    ELSE IF IsExpired(map[key], t) THEN FALSE
    ELSE TRUE

\* part_000:235-248  has(key) at time t: the map afterwards.
HasMap(map, key, t) ==
    IF key \in DOMAIN map /\ IsExpired(map[key], t)
    THEN MapDelete(map, key)
    ELSE map

\* part_000:267-274  cleanup() at time t: the map afterwards.
CleanupMap_All(map, t) == EmptyMap
CleanupMap(map, t) ==
    [k \in {j \in DOMAIN map : ~IsExpired(map[j], t)} |-> map[k]]

\* part_000:279-287  getStats()
GetStats(map) == [size |-> Cardinality(DOMAIN map), keys |-> DOMAIN map]

\* part_000:452-453  the keys invalidateCachePattern deletes.
PatternKeys_StartsWith(map, pattern) ==
    {key \in GetStats(map).keys :
        /\ Len(pattern) <= Len(key)
        /\ SubSeq(key, 1, Len(pattern)) = pattern}
PatternKeys(map, pattern) ==
    {key \in GetStats(map).keys : Includes(key, pattern)}

\* The record of a call: the method, its key or pattern, what it returned.
Call(op, key, ret) == [op |-> op, key |-> key, ret |-> ret]

NoCall == Call("none", "", Null)

\* No set() stands for the key.
NoSet == [set |-> FALSE]

\* The set() that stands for a key; over: it replaced an entry of the map.
StandingSet(data, timestamp, ttl, over) ==
    [set |-> TRUE, data |-> data, timestamp |-> timestamp, ttl |-> ttl,
     over |-> over]

\* part_000:302  the cache as the module creates it, its timer set.
CacheIdle ==
    /\ cache = EmptyMap
    /\ now = 0
    /\ cleanupInterval = TRUE
    /\ lastCall = NoCall
    /\ lastSet = [k \in Keys |-> NoSet]

(* ----------------------- Generation history GET ----------------------- *)

\* At most MaxLogs rows are in name_generation_logs at a time.
MaxLogs == 1

\* route.ts:227  .limit(20)
QueryLimit == 20

\* A row of name_generation_logs; metadata is given by whether it holds
\* personalityTraits and namePreferences; credits_used may be null.
LogRow(user_id, credits_used, names_generated, personalityTraits, namePreferences) ==
    [user_id |-> user_id, credits_used |-> credits_used,
     names_generated |-> names_generated,
     personalityTraits |-> personalityTraits,
     namePreferences |-> namePreferences]

\* The rows other routes write for a user.
LogRows(u) ==
    IF u = "u1" THEN {LogRow(u, 1, 5, TRUE, FALSE)}
    ELSE {LogRow(u, Absent, 2, FALSE, TRUE)}

\* route.ts:237-238  `x || 0`
OrZero(x) == IF x = Absent THEN 0 ELSE x

\* route.ts:222-227  the rows of the user, newest first, 20 at most.
SelectLogs(table, userId) ==
    LET mine == SelectSeq(table, LAMBDA row : row.user_id = userId)
        n == Len(mine)
        desc == [i \in 1..n |-> mine[n + 1 - i]]
    IN  SubSeq(desc, 1, IF n < QueryLimit THEN n ELSE QueryLimit)

\* route.ts:237  logs.reduce((sum, log) => sum + (log.credits_used || 0), 0)
RECURSIVE SumCreditsUsed(_)
SumCreditsUsed(logs) ==
    IF logs = <<>> THEN 0
    ELSE OrZero(Head(logs).credits_used) + SumCreditsUsed(Tail(logs))

\* route.ts:238  logs.reduce((sum, log) => sum + (log.names_generated || 0), 0)
RECURSIVE SumNamesGenerated(_)
SumNamesGenerated(logs) ==
    IF logs = <<>> THEN 0
    ELSE OrZero(Head(logs).names_generated) + SumNamesGenerated(Tail(logs))

\* route.ts:235-242  the quotient avg_per_session is kept as num / den.
Stats(logs) ==
    [total_generations |-> Len(logs),
     total_credits_used |-> SumCreditsUsed(logs),
     total_names_generated |-> SumNamesGenerated(logs),
     avg_per_session |->
        IF Len(logs) > 0
        THEN [num |-> SumNamesGenerated(logs), den |-> Len(logs)]
        ELSE [num |-> 0, den |-> 1]]

\* route.ts:245-249
ProcessLog(log) ==
    [user_id |-> log.user_id, credits_used |-> log.credits_used,
     names_generated |-> log.names_generated,
     personalityTraits |-> log.personalityTraits,
     namePreferences |-> log.namePreferences,
     has_personality_traits |-> log.personalityTraits,
     has_name_preferences |-> log.namePreferences]

\* route.ts:251-254
ResponseData(logs) ==
    [logs |-> [i \in 1..Len(logs) |-> ProcessLog(logs[i])],
     stats |-> Stats(logs)]

\* NextResponse.json(body, {status})
Json(body, status) == [status |-> status, body |-> body]

NoJson == Json([none |-> TRUE], 0)

\* route.ts:203
Unauthorized == Json([error |-> "Unauthorized"], 401)

\* route.ts:231
FetchFailed == Json([error |-> "Failed to fetch generation history"], 500)

\* route.ts:263-266
InternalServerError == Json([error |-> "Internal server error"], 500)

\* A lookup that never finds the entry.
UserDataCache_get_Miss(map, userId, dataType, t) == Null

\* part_000:379-380  UserDataCache.get: what it returns.
UserDataCache_get(map, userId, dataType, t) ==
    GetReturn(map, UserDataCache_generateKey(userId, dataType), t)

\* part_000:379-380  UserDataCache.get: the map afterwards.
UserDataCache_getMap(map, userId, dataType, t) ==
    GetMap(map, UserDataCache_generateKey(userId, dataType), t)

\* part_000:382-383  UserDataCache.set: the map afterwards.
UserDataCache_set_Long(map, userId, dataType, data, t) ==
    SetMap(map, UserDataCache_generateKey(userId, dataType), data,
           CACHE_TTL.LONG, t)
UserDataCache_set(map, userId, dataType, data, t) ==
    SetMap(map, UserDataCache_generateKey(userId, dataType), data,
           CACHE_TTL.SHORT, t)

\* The locals of a history request that has not arrived.
IdleGet ==
    [pc |-> "idle", auth |-> "none", user |-> NoUser, outcome |-> "none",
     logs |-> <<>>, changed |-> FALSE]

\* A response of the history route: who asked, whether it came from the
\* cache, whether the user's rows had changed since the cached response was
\* read, how long before it was stored, and the response that a cache that
\* always misses would have given instead.
Served(user, resp, noop, hit, hitChanged, age) ==
    [made |-> TRUE, user |-> user, hit |-> hit, hitChanged |-> hitChanged,
     age |-> age, resp |-> resp, noop |-> noop]

NoneServed ==
    [made |-> FALSE, user |-> NoUser, hit |-> FALSE, hitChanged |-> FALSE,
     age |-> 0, resp |-> NoJson, noop |-> NoJson]

\* No history request has arrived and the table is empty.
HistIdle ==
    /\ name_generation_logs = <<>>
    /\ hist = [r \in Reqs |-> IdleGet]
    /\ served = NoneServed
    /\ changedSince = [u \in Users |-> FALSE]

(* ------------------- Environment and the other routes ----------------- *)

\* A variable of process.env is truthy when set to a non-empty string.
IsSet(value) == value # Undefined /\ value # ""

\* The process runs in production with the payment credentials set.
EnvIdle ==
    /\ NODE_ENV = "production"
    /\ CREEM_API_URL = "https://api.creem.io"
    /\ CREEM_API_KEY = "creem_key"

\* part_001:89  an earlier call of handleError: its arguments and result.
PrevCall(error, context, out) ==
    [called |-> TRUE, error |-> error, context |-> context, out |-> out]

NoPrev == [called |-> FALSE]

\* part_001:62-73  a call of createError: its arguments and what it returned
\* (NoValue until it returns).
CreateCall(type, userMessage, technicalMessage, options, out) ==
    [called |-> TRUE, type |-> type, userMessage |-> userMessage,
     technicalMessage |-> technicalMessage, options |-> options, out |-> out]

NoCreate == [called |-> FALSE]

\* part_001:429-431  the wrapped handler is running and has not settled.
HandlerRunning == Json([running |-> TRUE], 0)

\* create-checkout/route.ts:8-15  a body without fields.
EmptyBody ==
    [productId |-> Undefined, tierId |-> Undefined, productType |-> Undefined,
     credits_amount |-> Absent, discountCode |-> Undefined]

\* route.ts:57-78  the locals of a checkout request as it starts.
CheckoutLocals ==
    [pc |-> "start", auth |-> "none", user |-> NoUser, email |-> Undefined,
     json |-> "none", body |-> EmptyBody, resp |-> NoJson]

\* No checkout request has arrived.
IdleCheckout == [pc |-> "idle"]

\* analytics/route.ts:36-46  the locals of an analytics request as it
\* starts.
AnalyticsLocals ==
    [pc |-> "start", json |-> "none", type |-> Undefined, data |-> "none",
     events |-> <<>>, processed |-> <<>>, resp |-> NoJson]

\* No analytics request has arrived.
IdleAnalytics == [pc |-> "idle"]

\* subscriptions.ts:3-59  the fields the checkout route reads, with the
\* product ids used when the environment overrides none.
SUBSCRIPTION_TIERS ==
    <<[name |-> "Starter", id |-> "tier-hobby",
       productId |-> "prod_starter_monthly", featured |-> FALSE],
      [name |-> "Business", id |-> "tier-pro",
       productId |-> "prod_business_monthly", featured |-> TRUE],
      [name |-> "Enterprise", id |-> "tier-enterprise",
       productId |-> "prod_enterprise_monthly", featured |-> FALSE]>>

\* subscriptions.ts:61-114
CREDITS_TIERS ==
    <<[name |-> "Basic", id |-> "tier-3-credits",
       productId |-> "prod_basic_credits", creditAmount |-> 3,
       featured |-> FALSE],
      [name |-> "Standard", id |-> "tier-6-credits",
       productId |-> "prod_standard_credits", creditAmount |-> 6,
       featured |-> TRUE],
      [name |-> "Premium", id |-> "tier-9-credits",
       productId |-> "prod_premium_credits", creditAmount |-> 9,
       featured |-> FALSE]>>

\* Array.prototype.find: of the positions that pass the test, the first,
\* or 0 when none does.
Find(positions) ==
    IF positions = {} THEN 0
    ELSE CHOOSE i \in positions : \A j \in positions : i <= j

\* route.ts:18  what the resolvers return; null is found = FALSE.
Resolved(productId, type, credits_amount) ==
    [found |-> TRUE, productId |-> productId, type |-> type,
     credits_amount |-> credits_amount]

NotResolved ==
    [found |-> FALSE, productId |-> Undefined, type |-> Undefined,
     credits_amount |-> Absent]

\* route.ts:17-31
ResolveFromTierId(tierId) ==
    LET sub == Find({i \in 1..Len(SUBSCRIPTION_TIERS) :
                        SUBSCRIPTION_TIERS[i].id = tierId})
        credit == Find({i \in 1..Len(CREDITS_TIERS) :
                           CREDITS_TIERS[i].id = tierId})
    IN  IF ~IsSet(tierId) THEN NotResolved
        ELSE IF sub # 0
             THEN Resolved(SUBSCRIPTION_TIERS[sub].productId, "subscription",
                           Absent)
        ELSE IF credit # 0
             THEN Resolved(CREDITS_TIERS[credit].productId, "credits",
                           CREDITS_TIERS[credit].creditAmount)
        ELSE NotResolved

\* route.ts:33-48
ResolveFromProductId(productId) ==
    LET sub == Find({i \in 1..Len(SUBSCRIPTION_TIERS) :
                        SUBSCRIPTION_TIERS[i].productId = productId})
        credit == Find({i \in 1..Len(CREDITS_TIERS) :
                           CREDITS_TIERS[i].productId = productId})
    IN  IF ~IsSet(productId) THEN NotResolved
        ELSE IF sub # 0
             THEN Resolved(SUBSCRIPTION_TIERS[sub].productId, "subscription",
                           Absent)
        ELSE IF credit # 0
             THEN Resolved(CREDITS_TIERS[credit].productId, "credits",
                           CREDITS_TIERS[credit].creditAmount)
        ELSE Resolved(productId, "credits", Absent)

\* pickDefaultCreditsTier that takes the first tier, featured or not.
PickDefaultCreditsTier_First ==
    Resolved(CREDITS_TIERS[1].productId, "credits",
             CREDITS_TIERS[1].creditAmount)

\* route.ts:50-55 and 89
PickDefaultCreditsTier ==
    LET featured == Find({i \in 1..Len(CREDITS_TIERS) :
                             CREDITS_TIERS[i].featured})
        chosen == IF featured # 0 THEN CREDITS_TIERS[featured]
                  ELSE CREDITS_TIERS[1]
    IN  Resolved(chosen.productId, "credits", chosen.creditAmount)

\* route.ts:71-91  the product a body selects.
Resolve(body) ==
    LET fromProductId == ResolveFromProductId(body.productId)
        fromTierId == ResolveFromTierId(body.tierId)
        hint == ToLowerCase(IF IsSet(body.productType) THEN body.productType
                            ELSE "")
    IN  IF fromProductId.found THEN fromProductId
        ELSE IF fromTierId.found THEN fromTierId
        ELSE IF hint = "subscription"
             THEN Resolved(SUBSCRIPTION_TIERS[1].productId, "subscription",
                           Absent)
        ELSE PickDefaultCreditsTier

\* route.ts:78 and 95-97  the amount of the body unless it gives none.
CreditsAmount(body, resolved) ==
    IF resolved.credits_amount \notin {Absent, 0} /\ body.credits_amount = Absent
    THEN resolved.credits_amount
    ELSE body.credits_amount

\* route.ts:120-123
NormalizedType(body, type) ==
    IF IsSet(body.productType)
       /\ Includes(ToLowerCase(body.productType), "credit")
    THEN "credits"
    ELSE type

\* route.ts:125-132  the arguments of createCheckoutSession.
SessionCall(productId, email, userId, type, credits_amount, discountCode) ==
    [productId |-> productId, email |-> email, userId |-> userId,
     type |-> type, credits_amount |-> credits_amount,
     discountCode |-> discountCode]

\* route.ts:65  a plain-text body; `text` is no JSON field.
CheckoutUnauthorized == Json([text |-> "Unauthorized"], 401)

\* route.ts:101-107
MissingCredentials ==
    Json([error |-> "Missing CREEM_API_URL or CREEM_API_KEY. Please set them in your environment."], 500)

\* route.ts:113-116
EmailNotAvailable ==
    Json([error |-> "User email not available. Please ensure the user has a valid email."], 400)

\* route.ts:134
CheckoutUrl == Json([checkoutUrl |-> "https://creem.io/checkout/1"], 200)

\* route.ts:135-142  the catch: the message of what was thrown is sent.
CheckoutFailed(message) ==
    Json([error |-> "Failed to create checkout session", details |-> message],
         500)

\* No call of generatePDF or of a wrapped function is made on its own.
UtilIdle == pdfCalls = <<>> /\ wrapped = <<>>

\* No checkout or analytics request has arrived.
RoutesIdle ==
    /\ checkout = IdleCheckout
    /\ sessions = <<>>
    /\ analytics = IdleAnalytics

ApiIdle == RoutesIdle /\ UtilIdle

(* ------------------------------- Init --------------------------------- *)

\* No error has been handed to the classifier.
ErrIdle ==
    /\ errIn = NoValue
    /\ errCtx = NoContext
    /\ errOut = NoValue
    /\ errPrev = NoPrev
    /\ created = NoCreate
    /\ errResp = NoJson

\* No PDF request has arrived; the balances are what they are set up to be.
PdfIdle ==
    /\ customers = [u \in Users |->
                       [id |-> CustomerId(u), credits |-> 0, present |-> TRUE]]
    /\ credits_history = <<>>
    /\ req = [r \in Reqs |-> IdleReq]
    /\ puppeteer = FALSE
    /\ isPuppeteerLoading = FALSE
    /\ puppeteerLoadPromise = 0
    /\ loads = <<>>
    /\ initial = [u \in Users |-> 0]
    /\ overlapped = [u \in Users |-> FALSE]

Init ==
    /\ ErrIdle
    /\ CacheIdle
    /\ HistIdle
    /\ EnvIdle
    /\ ApiIdle
    /\ \E c \in [Users -> 0..MaxCredits] :
          customers = [u \in Users |->
                          [id |-> CustomerId(u), credits |-> c[u], present |-> TRUE]]
    /\ credits_history = <<>>
    /\ req = [r \in Reqs |-> IdleReq]
    /\ puppeteer = FALSE
    /\ isPuppeteerLoading = FALSE
    /\ puppeteerLoadPromise = 0
    /\ loads = <<>>
    /\ initial = [u \in Users |-> customers[u].credits]
    /\ overlapped = [u \in Users |-> FALSE]

(* --------------------- POST /api/generate-pdf ------------------------- *)

\* route.ts:31  a request arrives and the handler is entered.
Start(r) ==
    /\ req[r].pc = "idle"
    /\ req' = [req EXCEPT ![r].pc = "auth"]
    /\ UNCHANGED <<dbVars, loaderVars, initial, overlapped>>
    /\ UNCHANGED extVars

\* The 401 gate without the test of the error.
AuthFailed_NoError(authError, user) == user = NoUser

\* route.ts:42
AuthFailed(authError, user) == authError \/ user = NoUser

\* route.ts:37-47  createClient, auth.getUser and the 401 gate.
GetUser(r) ==
    /\ req[r].pc = "auth"
    /\ \/ \E u \in Users \cup {NoUser}, authError \in BOOLEAN :
             req' = [req EXCEPT
                       ![r].auth = "returned",
                       ![r].authError = authError,
                       ![r].user = u,
                       ![r].pc = IF AuthFailed(authError, u) THEN "done" ELSE "body",
                       ![r].resp = IF AuthFailed(authError, u)
                                   THEN JsonError(401) ELSE NoResponse]
       \/ req' = [req EXCEPT ![r].auth = "throw", ![r].pc = "done",
                              ![r].resp = JsonErrorDetails(500)]   \* 179-187
    /\ UNCHANGED <<dbVars, loaderVars, initial, overlapped>>
    /\ UNCHANGED extVars

\* The 400 gate testing one field only.
MissingData_NameOnly(b) == ~b.nameData

\* route.ts:52
MissingData(b) == ~b.nameData \/ ~b.userData

\* route.ts:49-57  request.json() and the 400 gate.
ParseBody(r) ==
    /\ req[r].pc = "body"
    /\ \E b \in Bodies :
          IF ~b.json
          THEN req' = [req EXCEPT ![r].pc = "done", ![r].body = b,
                                  ![r].resp = JsonErrorDetails(500)]  \* 179-187
          ELSE IF MissingData(b)
          THEN req' = [req EXCEPT ![r].pc = "done", ![r].body = b,
                                  ![r].resp = JsonError(400)]
          ELSE req' = [req EXCEPT ![r].pc = "avail", ![r].body = b]
    /\ UNCHANGED <<dbVars, loaderVars, initial, overlapped>>
    /\ UNCHANGED extVars

(* ------------------- the lazy renderer loader ------------------------- *)

\* part_000:45  if (puppeteer) return puppeteer
GetPuppeteerLoaded == puppeteer

\* The loader without the test of a load in flight: no caller joins one.
GetPuppeteerJoins_Never == FALSE

\* part_000:49  if (isPuppeteerLoading && puppeteerLoadPromise)
GetPuppeteerJoins == isPuppeteerLoading /\ puppeteerLoadPromise # 0

\* part_000:53-62  start the import and publish its promise.
StartLoad ==
    /\ loads' = Append(loads, "pending")
    /\ isPuppeteerLoading' = TRUE
    /\ puppeteerLoadPromise' = Len(loads) + 1
    /\ UNCHANGED puppeteer

\* part_000:54-58  .then: the import succeeded.
LoadFulfilled(i) ==
    /\ loads' = [loads EXCEPT ![i] = "fulfilled"]
    /\ puppeteer' = TRUE
    /\ isPuppeteerLoading' = FALSE
    /\ UNCHANGED puppeteerLoadPromise

\* part_000:58-62  .catch: the import failed.
LoadRejected(i) ==
    /\ loads' = [loads EXCEPT ![i] = "rejected"]
    /\ isPuppeteerLoading' = FALSE
    /\ puppeteerLoadPromise' = 0
    /\ UNCHANGED puppeteer

\* The dynamic import('puppeteer') settles.
ImportSettles(i) ==
    /\ i \in 1..Len(loads)
    /\ loads[i] = "pending"
    /\ LoadFulfilled(i) \/ LoadRejected(i)
    /\ UNCHANGED <<dbVars, req, initial, overlapped>>
    /\ UNCHANGED extVars

\* route.ts:68 with part_000:170-177 and 44-64: isPDFGenerationAvailable
\* calls getPuppeteer and awaits it.
CheckAvailable(r) ==
    /\ req[r].pc = "avail"
    /\ IF GetPuppeteerLoaded
       THEN /\ req' = [req EXCEPT ![r].pc = "fetch", ![r].available = "yes"]
            /\ UNCHANGED loaderVars
       ELSE IF GetPuppeteerJoins
       THEN /\ req' = [req EXCEPT ![r].pc = "availWait",
                                  ![r].awaiting = puppeteerLoadPromise]
            /\ UNCHANGED loaderVars
       ELSE /\ Len(loads) < MaxLoads
            /\ StartLoad
            /\ req' = [req EXCEPT ![r].pc = "availWait",
                                  ![r].awaiting = Len(loads) + 1]
    /\ UNCHANGED <<dbVars, initial, overlapped>>
    /\ UNCHANGED extVars

\* The availability result ignored: the handler goes on to the balance read.
AvailabilityKnown_Ignored(r) ==
    /\ req[r].pc = "availWait"
    /\ loads[req[r].awaiting] # "pending"
    /\ req' = [req EXCEPT ![r].pc = "fetch", ![r].awaiting = 0,
                          ![r].available = IF loads[req[r].awaiting] = "fulfilled"
                                           THEN "yes" ELSE "no"]
    /\ UNCHANGED <<dbVars, loaderVars, initial, overlapped>>
    /\ UNCHANGED extVars

\* The handler asking again after a failed load instead of answering 503.
AvailabilityKnown_Retrying(r) ==
    /\ req[r].pc = "availWait"
    /\ loads[req[r].awaiting] # "pending"
    /\ IF loads[req[r].awaiting] = "fulfilled"
       THEN req' = [req EXCEPT ![r].pc = "fetch", ![r].awaiting = 0,
                               ![r].available = "yes"]
       ELSE req' = [req EXCEPT ![r].pc = "avail", ![r].awaiting = 0]
    /\ UNCHANGED <<dbVars, loaderVars, initial, overlapped>>
    /\ UNCHANGED extVars

\* route.ts:69-74  the awaited load has settled: true, or false and 503.
AvailabilityKnown(r) ==
    /\ req[r].pc = "availWait"
    /\ loads[req[r].awaiting] # "pending"
    /\ IF loads[req[r].awaiting] = "fulfilled"
       THEN req' = [req EXCEPT ![r].pc = "fetch", ![r].awaiting = 0,
                               ![r].available = "yes"]
       ELSE req' = [req EXCEPT ![r].pc = "done", ![r].awaiting = 0,
                               ![r].available = "no",
                               ![r].resp = JsonError(503)]
    /\ UNCHANGED <<dbVars, loaderVars, initial, overlapped>>
    /\ UNCHANGED extVars

(* ------------------- entitlement check and charge --------------------- *)

\* The gate with its threshold off by one.
InsufficientCredits_Off(customer) == ~customer.present \/ customer.credits < 0

\* route.ts:91  !customer || customer.credits < 1
InsufficientCredits(customer) == ~customer.present \/ customer.credits < 1

\* The new balance without the decrement.
NewCredits_Same(customer) == customer.credits

\* route.ts:117
NewCredits(customer) == customer.credits - 1

\* The row with the balances before and after exchanged.
HistoryRow_Swapped(customer) ==
    [customer_id |-> customer.id, amount |-> 1, type |-> "subtract",
     description |-> "pdf_generation",
     credits_before |-> NewCredits(customer),
     credits_after |-> customer.credits]

\* route.ts:134-147  the credits_history row of a charge.
HistoryRow(customer) ==
    [customer_id |-> customer.id, amount |-> 1, type |-> "subtract",
     description |-> "pdf_generation",
     credits_before |-> customer.credits,
     credits_after |-> NewCredits(customer)]

\* route.ts:76-106  read the customer row, then the 500 and 403 gates.
FetchCustomer(r) ==
    /\ req[r].pc = "fetch"
    /\ \E o \in DbOutcomes :
          LET u == req[r].user
              customer == customers[u]
          IN  CASE o = "throw" ->
                     /\ req' = [req EXCEPT ![r].pc = "done",
                                           ![r].fetchOutcome = o,
                                           ![r].resp = JsonErrorDetails(500)]
                     /\ UNCHANGED overlapped
                [] o = "error" ->
                     /\ req' = [req EXCEPT ![r].pc = "done",
                                           ![r].fetchOutcome = o,
                                           ![r].resp = JsonError(500)]
                     /\ UNCHANGED overlapped
                [] o = "ok" ->
                     IF InsufficientCredits(customer)
                     THEN /\ req' = [req EXCEPT
                                       ![r].pc = "done",
                                       ![r].fetchOutcome = o,
                                       ![r].customer = customer,
                                       ![r].reads = @ + 1,
                                       ![r].resp = InsufficientCreditsResponse(customer)]
                          /\ UNCHANGED overlapped
                     ELSE /\ req' = [req EXCEPT
                                       ![r].pc = "render",
                                       ![r].fetchOutcome = o,
                                       ![r].customer = customer,
                                       ![r].reads = @ + 1]
                          /\ overlapped' =
                               [overlapped EXCEPT
                                  ![u] = @ \/ \E q \in Reqs \ {r} : InWindow(q, u)]
    /\ UNCHANGED <<dbVars, loaderVars, initial>>
    /\ UNCHANGED extVars

\* The render's failure swallowed: the handler goes on to the charge.
GenerateNameCertificate_Swallowed(r) ==
    /\ req[r].pc = "render"
    /\ \E ok \in BOOLEAN :
          req' = [req EXCEPT ![r].pc = "update",
                             ![r].rendered = IF ok THEN "ok" ELSE "failed",
                             ![r].renders = @ + 1]
    /\ UNCHANGED <<dbVars, loaderVars, initial, overlapped>>
    /\ UNCHANGED extVars

\* The render called without awaiting the balance read: charge-side first.
GenerateNameCertificate_Unordered(r) ==
    /\ req[r].pc \in {"fetch", "render"}
    /\ \E ok \in BOOLEAN :
          IF ok
          THEN req' = [req EXCEPT ![r].pc = "update", ![r].rendered = "ok",
                                  ![r].renders = @ + 1]
          ELSE req' = [req EXCEPT ![r].pc = "done", ![r].rendered = "failed",
                                  ![r].renders = @ + 1,
                                  ![r].resp = JsonErrorDetails(500)]
    /\ UNCHANGED <<dbVars, loaderVars, initial, overlapped>>
    /\ UNCHANGED extVars

\* route.ts:108-114 and 168-177  the render, in its own try/catch.
GenerateNameCertificate(r) ==
    /\ req[r].pc = "render"
    /\ \E ok \in BOOLEAN :
          IF ok
          THEN req' = [req EXCEPT ![r].pc = "update", ![r].rendered = "ok",
                                  ![r].renders = @ + 1]
          ELSE req' = [req EXCEPT ![r].pc = "done", ![r].rendered = "failed",
                                  ![r].renders = @ + 1,
                                  ![r].resp = JsonErrorDetails(500)]
    /\ UNCHANGED <<dbVars, loaderVars, initial, overlapped>>
    /\ UNCHANGED extVars

\* The charge retried after a returned error.
UpdateCredits_Retry(r) ==
    /\ req[r].pc = "update"
    /\ \E o \in DbOutcomes :
          LET u == req[r].user
          IN  CASE o = "ok" ->
                     /\ customers' = [customers EXCEPT
                                        ![u].credits = NewCredits(req[r].customer)]
                     /\ req' = [req EXCEPT ![r].pc = "insert",
                                           ![r].updates = @ + 1,
                                           ![r].updateOutcome = o]
                [] o = "error" ->
                     /\ req[r].updates < 3
                     /\ req' = [req EXCEPT ![r].updates = @ + 1,
                                           ![r].updateOutcome = o]
                     /\ UNCHANGED customers
                [] o = "throw" ->
                     /\ req' = [req EXCEPT ![r].pc = "done",
                                           ![r].updates = @ + 1,
                                           ![r].updateOutcome = o,
                                           ![r].resp = JsonErrorDetails(500)]
                     /\ UNCHANGED customers
    /\ UNCHANGED <<credits_history, loaderVars, initial, overlapped>>
    /\ UNCHANGED extVars

\* The charge with a returned error treated as fatal: 500 instead of the PDF.
UpdateCredits_Fatal(r) ==
    /\ req[r].pc = "update"
    /\ \E o \in DbOutcomes :
          LET u == req[r].user
          IN  IF o = "ok"
              THEN /\ customers' = [customers EXCEPT
                                      ![u].credits = NewCredits(req[r].customer)]
                   /\ req' = [req EXCEPT ![r].pc = "insert",
                                         ![r].updates = @ + 1,
                                         ![r].updateOutcome = o]
              ELSE /\ req' = [req EXCEPT ![r].pc = "done",
                                         ![r].updates = @ + 1,
                                         ![r].updateOutcome = o,
                                         ![r].resp = JsonErrorDetails(500)]
                   /\ UNCHANGED customers
    /\ UNCHANGED <<credits_history, loaderVars, initial, overlapped>>
    /\ UNCHANGED extVars

\* route.ts:116-130  write the new balance.
UpdateCredits(r) ==
    /\ req[r].pc = "update"
    /\ \E o \in DbOutcomes :
          LET u == req[r].user
          IN  CASE o = "ok" ->
                     /\ customers' = [customers EXCEPT
                                        ![u].credits = NewCredits(req[r].customer)]
                     /\ req' = [req EXCEPT ![r].pc = "insert",
                                           ![r].updates = @ + 1,
                                           ![r].updateOutcome = o]
                [] o = "error" ->
                     /\ req' = [req EXCEPT ![r].pc = "done",
                                           ![r].updates = @ + 1,
                                           ![r].updateOutcome = o,
                                           ![r].resp = PdfResponse]
                     /\ UNCHANGED customers
                [] o = "throw" ->
                     /\ req' = [req EXCEPT ![r].pc = "done",
                                           ![r].updates = @ + 1,
                                           ![r].updateOutcome = o,
                                           ![r].resp = JsonErrorDetails(500)]
                     /\ UNCHANGED customers
    /\ UNCHANGED <<credits_history, loaderVars, initial, overlapped>>
    /\ UNCHANGED extVars

\* route.ts:131-166  append the history row, then return the PDF.
InsertHistory(r) ==
    /\ req[r].pc = "insert"
    /\ \E o \in DbOutcomes :
          /\ credits_history' =
                IF o = "ok" THEN Append(credits_history, HistoryRow(req[r].customer))
                ELSE credits_history
          /\ req' = [req EXCEPT ![r].pc = "done",
                                ![r].inserts = @ + 1,
                                ![r].insertOutcome = o,
                                ![r].resp = IF o = "throw"
                                            THEN JsonErrorDetails(500)
                                            ELSE PdfResponse]
    /\ UNCHANGED <<customers, loaderVars, initial, overlapped>>
    /\ UNCHANGED extVars

(* ------------------------------- Next --------------------------------- *)

Next ==
    \/ \E r \in Reqs : Start(r)
    \/ \E r \in Reqs : GetUser(r)
    \/ \E r \in Reqs : ParseBody(r)
    \/ \E r \in Reqs : CheckAvailable(r)
    \/ \E i \in 1..MaxLoads : ImportSettles(i)
    \/ \E r \in Reqs : AvailabilityKnown(r)
    \/ \E r \in Reqs : FetchCustomer(r)
    \/ \E r \in Reqs : GenerateNameCertificate(r)
    \/ \E r \in Reqs : UpdateCredits(r)
    \/ \E r \in Reqs : InsertHistory(r)

Spec == Init /\ [][Next]_vars

(* ------------------------ derived quantities -------------------------- *)

Finished(r) == req[r].pc \in {"idle", "done"}

\* No request is between its arrival and its response.
Quiescent == \A r \in Reqs : Finished(r)

\* The requests of user u whose balance update was applied.
Charged(u) == {r \in Reqs : req[r].user = u /\ req[r].updateOutcome = "ok"}

RECURSIVE SumSubtract(_, _)
\* Sum of `amount` over the rows of customer id c of type 'subtract'.
SumSubtract(rows, c) ==
    IF rows = <<>> THEN 0
    ELSE (IF Head(rows).customer_id = c /\ Head(rows).type = "subtract"
          THEN Head(rows).amount ELSE 0) + SumSubtract(Tail(rows), c)

(* ------------------------------ claims -------------------------------- *)

\* C1: under every interleaving of PDF requests, concurrent requests of one
\* customer included, the stored credits of every customer (whose initial
\* balance is >= 0) is >= 0 in every reachable state.
C1_BalanceNeverNegative ==
    \A u \in Users : initial[u] >= 0 => customers[u].credits >= 0

\* C1 witness: two requests of one customer raced through the check, both
\* wrote their charge, and the balance stands at 0.
C1_Witness ==
    \E u \in Users :
        /\ overlapped[u]
        /\ Cardinality(Charged(u)) = 2
        /\ customers[u].credits = 0

\* C2: two concurrent requests of one customer can both pass the balance
\* check before either writes; serving more charges than the initial balance
\* covers happens, and happens only as a result of that race.
C2_OverspendOnlyByRace ==
    \A u \in Users : Cardinality(Charged(u)) > initial[u] => overlapped[u]

\* C2 witness: a customer that started with credits = 1, two requests that
\* both read 1 before either wrote, both charged and both answered 200 PDF.
C2_Witness ==
    \E u \in Users : \E r1, r2 \in Reqs :
        /\ r1 # r2
        /\ initial[u] = 1
        /\ req[r1].user = u /\ req[r2].user = u
        /\ req[r1].customer.credits = 1 /\ req[r2].customer.credits = 1
        /\ req[r1].updateOutcome = "ok" /\ req[r2].updateOutcome = "ok"
        /\ req[r1].resp = PdfResponse /\ req[r2].resp = PdfResponse
        /\ overlapped[u]

\* C3: ledger reconciliation.  In every state with no PDF request in flight,
\* every customer's credits equals the initial balance minus the sum of
\* amount over its credits_history rows of type 'subtract'.
C3_LedgerReconciles ==
    Quiescent =>
        \A u \in Users :
            customers[u].credits =
                initial[u] - SumSubtract(credits_history, customers[u].id)

\* The request touched neither the balance, the renderer nor the ledger.
NoEffects(r) ==
    /\ req[r].reads = 0
    /\ req[r].renders = 0
    /\ req[r].updates = 0
    /\ req[r].inserts = 0

\* Request r is the only one that has arrived.
Alone(r) == \A q \in Reqs \ {r} : req[q].pc = "idle"

WellFormed(b) == b.json /\ b.nameData /\ b.userData

\* No awaited call of request r has failed so far.
AllSucceeded(r) ==
    /\ req[r].auth = "returned" /\ ~req[r].authError /\ req[r].user # NoUser
    /\ WellFormed(req[r].body)
    /\ req[r].available # "no"
    /\ req[r].fetchOutcome \notin {"error", "throw"}
    /\ req[r].rendered # "failed"
    /\ req[r].updateOutcome \notin {"error", "throw"}
    /\ req[r].insertOutcome \notin {"error", "throw"}

\* C4: if the render fails, no charge is made: the request issues neither
\* the balance update nor the history insert, and it answers 500.
C4_RenderFailureNoCharge ==
    \A r \in Reqs :
        req[r].rendered = "failed" =>
            /\ req[r].pc = "done"
            /\ req[r].resp.status = 500
            /\ req[r].updates = 0
            /\ req[r].inserts = 0

\* C4 witness: a render failed for a customer who had credits to charge.
C4_Witness ==
    \E r \in Reqs :
        /\ req[r].rendered = "failed"
        /\ req[r].customer.credits >= 1
        /\ customers[req[r].user].credits = initial[req[r].user]
        /\ credits_history = <<>>

\* C5: a single authenticated, well-formed request running alone, balance
\* c >= 1, renderer available, render and database writes succeeding, is
\* answered 200 with a PDF, leaves credits = c - 1 and appends exactly one
\* row: amount 1, type 'subtract', credits_before c, credits_after c - 1.
C5_SingleRequestCharge ==
    \A r \in Reqs :
        (/\ req[r].pc = "done"
         /\ Alone(r)
         /\ AllSucceeded(r)
         /\ initial[req[r].user] >= 1)
        => LET u == req[r].user
               c == initial[u]
           IN  /\ req[r].resp = PdfResponse
               /\ customers[u].credits = c - 1
               /\ credits_history =
                     << [customer_id |-> customers[u].id, amount |-> 1,
                         type |-> "subtract", description |-> "pdf_generation",
                         credits_before |-> c, credits_after |-> c - 1] >>

\* C5 witness: the scenario with c = 1: the balance has become 0.
C5_Witness ==
    \E r \in Reqs :
        /\ req[r].pc = "done" /\ Alone(r) /\ AllSucceeded(r)
        /\ initial[req[r].user] = 1
        /\ customers[req[r].user].credits = 0
        /\ Len(credits_history) = 1

\* C6: a request whose balance read is < 1 is denied: 403 with
\* creditsRequired = 1 and currentCredits = the balance read, no render, no
\* balance update, no history row.
C6_InsufficientDenied ==
    \A r \in Reqs :
        (req[r].fetchOutcome = "ok" /\ req[r].customer.credits < 1)
        => /\ req[r].pc = "done"
           /\ req[r].resp = [status |-> 403, kind |-> "json",
                             creditsRequired |-> 1,
                             currentCredits |-> req[r].customer.credits,
                             details |-> FALSE]
           /\ req[r].renders = 0
           /\ req[r].updates = 0
           /\ req[r].inserts = 0

\* C6 witness: a customer with credits = 0 was refused with currentCredits 0.
C6_Witness ==
    \E r \in Reqs :
        /\ req[r].fetchOutcome = "ok"
        /\ req[r].customer.credits = 0
        /\ req[r].resp.status = 403
        /\ req[r].resp.currentCredits = 0
        /\ customers[req[r].user].credits = 0

\* C7: within one request the balance read precedes the render call, the
\* render has succeeded before the balance update is issued, and the history
\* insert is issued only after the balance update.
C7_StepsOrdered ==
    [][\A r \in Reqs :
          /\ req'[r].renders > req[r].renders => req[r].reads = 1
          /\ req'[r].updates > req[r].updates =>
                req[r].rendered = "ok" /\ req[r].reads = 1
          /\ req'[r].inserts > req[r].inserts =>
                req[r].updates = 1 /\ req[r].rendered = "ok"]_vars

\* C7 witness: a request went through read, render, update and insert.
C7_Witness ==
    \E r \in Reqs :
        /\ req[r].reads = 1 /\ req[r].renders = 1
        /\ req[r].updates = 1 /\ req[r].inserts = 1

\* C8: after a successful render, a balance update or history insert that
\* reports an error still ends in 200 with the PDF; after an update error
\* the request appends no history row.
C8_AccountingErrorStillServes ==
    \A r \in Reqs :
        /\ req[r].updateOutcome = "error" =>
              /\ req[r].pc = "done"
              /\ req[r].resp = PdfResponse
              /\ req[r].inserts = 0
        /\ req[r].insertOutcome = "error" =>
              /\ req[r].pc = "done"
              /\ req[r].resp = PdfResponse

\* C8 witness: an update error left the balance and the ledger as they were
\* and the PDF was delivered.
C8_Witness ==
    \E r \in Reqs :
        /\ req[r].updateOutcome = "error"
        /\ req[r].rendered = "ok"
        /\ req[r].resp.status = 200
        /\ Alone(r)
        /\ customers[req[r].user].credits = initial[req[r].user]
        /\ credits_history = <<>>

\* C9: a request with no valid session (auth error or no user) ends with 401
\* and has no effects: no balance read or write, no render, no history row,
\* and the renderer is not asked either.
C9_UnauthenticatedNoEffects ==
    \A r \in Reqs :
        (req[r].auth = "returned" /\ (req[r].authError \/ req[r].user = NoUser))
        => /\ req[r].pc = "done"
           /\ req[r].resp = JsonError(401)
           /\ NoEffects(r)
           /\ req[r].available = "unknown"

\* C9 witness: getUser returned an auth error and the request was refused.
C9_Witness ==
    \E r \in Reqs :
        /\ req[r].auth = "returned"
        /\ req[r].authError
        /\ req[r].user # NoUser
        /\ req[r].resp.status = 401

\* C10: when the renderer reports unavailability the request short-circuits
\* to 503 without reading the balance, rendering or charging, whatever the
\* customer's balance.
C10_UnavailableShortCircuits ==
    \A r \in Reqs :
        req[r].available = "no"
        => /\ req[r].pc = "done"
           /\ req[r].resp = JsonError(503)
           /\ NoEffects(r)

\* C10 witness: a customer with credits got 503 and kept the balance.
C10_Witness ==
    \E r \in Reqs :
        /\ req[r].available = "no"
        /\ req[r].resp.status = 503
        /\ initial[req[r].user] >= 1
        /\ customers[req[r].user].credits = initial[req[r].user]

\* C11: no automatic retries.  In every PDF request the render is invoked
\* at most once, the balance update is issued at most once and the history
\* insert is issued at most once, whatever the outcome of each step.
C11_NoRetries ==
    \A r \in Reqs :
        /\ req[r].reads <= 1
        /\ req[r].renders <= 1
        /\ req[r].updates <= 1
        /\ req[r].inserts <= 1

\* C11 witness: requests whose render, update or insert failed have ended
\* after that one attempt.
C11_Witness ==
    \E r1, r2 \in Reqs :
        /\ r1 # r2
        /\ req[r1].pc = "done" /\ req[r1].updateOutcome = "error"
        /\ req[r1].updates = 1
        /\ req[r2].pc = "done" /\ req[r2].rendered = "failed"
        /\ req[r2].renders = 1

(* ------------------ specification: error classifier ------------------- *)

\* Pieces of failure messages: every keyword of classifyError (part_001:
\* 119-244), some of them capitalised, and words that are no keyword.
Fragments ==
    {"unauthorized", "authentication", "invalid token", "jwt",
     "forbidden", "access denied", "insufficient permissions",
     "rate limit", "too many requests", "quota exceeded",
     "payment", "billing", "creem",
     "validation", "invalid", "required", "bad request",
     "network", "fetch", "connection", "timeout",
     "database", "constraint", "duplicate",
     "openai", "ai", "api",
     "JWT", "Unauthorized", "Rate Limit", "PAYMENT", "Timeout",
     "oops", "error", "failed", "x"}

\* error.message: the empty message, one piece, or two pieces in a sentence.
Messages ==
    {""} \cup Fragments \cup {a \o " " \o b : a, b \in Fragments}

\* The `context` argument: not given, or a caller's label.
Contexts ==
    {NoContext} \cup
    {Context(t) : t \in {"", "Payment", "checkout", "database", "Supabase",
                         "openai", "name generation", "pdf"}}

\* new Error(message): an Error that carries no AppError fields.
ThrownErrors ==
    {JsValue(TRUE, TRUE, FALSE, FALSE, Undefined, Undefined, m, Undefined,
             Undefined, <<>>, FALSE) : m \in Messages}

\* Typed errors: plain objects made by createError, Errors that were given a
\* type and a userMessage, and objects whose type is outside the taxonomy.
TypedErrors ==
    {JsValue(TRUE, isError, TRUE, TRUE, type, severity, m, userMessage,
             code, <<>>, retryable) :
        isError \in BOOLEAN,
        type \in {"validation", "payment", "internal", "custom"},
        severity \in {"low", "critical", Undefined},
        m \in {"unauthorized", "Payment failed", "x"},
        userMessage \in {"", "Please sign in to continue."},
        code \in {Undefined, "E42"},
        retryable \in BOOLEAN}

\* Thrown values that are neither: strings and other primitives (message
\* holds String(error)), and objects lacking a string type or userMessage.
OtherValues ==
    {JsValue(FALSE, FALSE, FALSE, FALSE, Undefined, Undefined, m, Undefined,
             Undefined, <<>>, FALSE) :
        m \in {"boom", "undefined", "null", "unauthorized", "42"}}
    \cup
    {JsValue(TRUE, FALSE, typeIsString, userMessageIsString,
             IF typeIsString THEN "validation" ELSE Undefined,
             Undefined, "[object Object]",
             IF userMessageIsString THEN "Please check" ELSE Undefined,
             Undefined, <<>>, FALSE) :
        typeIsString \in BOOLEAN, userMessageIsString \in {FALSE}}

ErrInputs == ThrownErrors \cup TypedErrors \cup OtherValues

\* The arguments of a call of createError: every type of the taxonomy and
\* one outside it, with and without the options that override a default.
CreateInputs ==
    {CreateCall(type, "Please try again.", technicalMessage,
                Options(code, <<>>, hasRetryable, retryable, severity),
                NoValue) :
        type \in ErrorTypes \cup {"custom"},
        technicalMessage \in {Undefined, "boom"},
        code \in {Undefined, "E42"},
        hasRetryable \in BOOLEAN,
        retryable \in BOOLEAN,
        severity \in {Undefined, "low"}}

\* Errors of every type of the taxonomy, as createError makes them.
TaxonomyErrors ==
    {CreateError(type, "Please try again.", "boom",
                 Options(Undefined, <<>>, FALSE, FALSE, Undefined)) :
        type \in ErrorTypes}

\* part_001:367-373  typed errors that carry details.
DetailedErrors ==
    {("details" :> "field: email") @@ e :
        e \in {CreateError(type, "Please check your input and try again.", "",
                           Options(Undefined, <<>>, TRUE, FALSE, "low")) :
                  type \in {"validation", "internal"}}}

\* What a wrapped handler throws.
HandlerThrows == ErrInputs \cup TaxonomyErrors \cup DetailedErrors

\* One use of the module: a failure handed to handleError with a context,
\* a call of createError, or a handler wrapped by withErrorHandler that
\* throws a failure or returns.
InitErr ==
    /\ PdfIdle
    /\ CacheIdle
    /\ HistIdle
    /\ ApiIdle
    /\ CREEM_API_URL = "https://api.creem.io"
    /\ CREEM_API_KEY = "creem_key"
    /\ errOut = NoValue
    /\ errPrev = NoPrev
    /\ \/ /\ errIn \in ErrInputs
          /\ errCtx \in Contexts
          /\ created = NoCreate
          /\ errResp = NoJson
          /\ NODE_ENV = "production"
       \/ /\ errIn = NoValue
          /\ errCtx = NoContext
          /\ created \in CreateInputs
          /\ errResp = NoJson
          /\ NODE_ENV = "production"
       \/ /\ errIn \in HandlerThrows \cup {NoValue}
          /\ errCtx = NoContext
          /\ created = NoCreate
          /\ errResp = HandlerRunning
          /\ NODE_ENV \in {"production", "development"}

\* part_001:89-109  ErrorHandler.handleError(error, context)
HandleErrorCall ==
    /\ errIn.kind = "value"
    /\ errOut = NoValue
    /\ errOut' = HandleError(errIn, errCtx)
    /\ UNCHANGED <<errIn, errCtx, errPrev, created, errResp>>
    /\ UNCHANGED <<pdfVars, cacheVars, histVars, envVars, apiVars>>

\* part_001:62-84  ErrorHandler.createError(type, userMessage,
\* technicalMessage, options)
CreateErrorCall ==
    /\ created.called
    /\ created.out = NoValue
    /\ created' = [created EXCEPT !.out =
            CreateError(created.type, created.userMessage,
                        created.technicalMessage, created.options)]
    /\ UNCHANGED <<errIn, errCtx, errOut, errPrev, errResp>>
    /\ UNCHANGED <<pdfVars, cacheVars, histVars, envVars, apiVars>>

\* part_001:430-431  the wrapped handler returns its own response.
WithErrorHandlerReturns ==
    /\ errResp = HandlerRunning
    /\ errIn = NoValue
    /\ errResp' = Json([success |-> TRUE], 200)
    /\ UNCHANGED <<errIn, errCtx, errOut, errPrev, created>>
    /\ UNCHANGED <<pdfVars, cacheVars, histVars, envVars, apiVars>>

\* part_001:432-457  the wrapped handler throws: the failure is classified
\* without a context and answered with the status of its type.
WithErrorHandlerCatches ==
    /\ errResp = HandlerRunning
    /\ errIn.kind = "value"
    /\ LET appError == HandleError(errIn, NoContext)
           errorResponse == ToErrorResponse(appError, "uuid", NODE_ENV)
           statusCode == GetStatusCode(appError.type)
       IN  errResp' = Json(errorResponse, statusCode)
    /\ UNCHANGED <<errIn, errCtx, errOut, errPrev, created>>
    /\ UNCHANGED <<pdfVars, cacheVars, histVars, envVars, apiVars>>

\* The failures with a given message that a second call is made with: an
\* Error, a thrown string, and a typed error that carries the message.
SecondFailures(message) ==
    {JsValue(TRUE, TRUE, FALSE, FALSE, Undefined, Undefined, message,
             Undefined, Undefined, <<>>, FALSE),
     JsValue(FALSE, FALSE, FALSE, FALSE, Undefined, Undefined, message,
             Undefined, Undefined, <<>>, FALSE),
     CreateError("validation", "Please check your input and try again.",
                 message, Options(Undefined, <<>>, FALSE, FALSE, Undefined))}

\* part_001:89  handleError, called directly, has returned and is about to
\* be called once more, with the same failure or another one with the same
\* message, and with the same context.
NextFailure ==
    /\ errOut.kind = "value"
    /\ errResp = NoJson
    /\ ~errPrev.called
    /\ errPrev' = PrevCall(errIn, errCtx, errOut)
    /\ errIn' \in {errIn} \cup SecondFailures(errIn.message)
    /\ errOut' = NoValue
    /\ UNCHANGED <<errCtx, created, errResp>>
    /\ UNCHANGED <<pdfVars, cacheVars, histVars, envVars, apiVars>>

NextErr ==
    \/ HandleErrorCall
    \/ NextFailure
    \/ CreateErrorCall
    \/ WithErrorHandlerReturns
    \/ WithErrorHandlerCatches

SpecErr == InitErr /\ [][NextErr]_vars

\* part_001:118-260  the kinds in the order their rules are tested.
PriorityOrder ==
    <<"authentication", "authorization", "rate_limit", "payment",
      "validation", "network", "database", "external_service">>

\* The rule of a kind matches the lowercased message and context.
RuleMatches(kind, message, contextLower) ==
    CASE kind = "authentication" -> IsAuthentication(message)
      [] kind = "authorization" -> IsAuthorization(message)
      [] kind = "rate_limit" -> IsRateLimit(message)
      [] kind = "payment" -> IsPayment(message, contextLower)
      [] kind = "validation" -> IsValidation(message)
      [] kind = "network" -> IsNetwork(message)
      [] kind = "database" -> IsDatabase(message, contextLower)
      [] kind = "external_service" -> IsExternalService(message, contextLower)
      [] OTHER -> FALSE

\* The positions in PriorityOrder of the rules that match.
MatchingRules(message, contextLower) ==
    {i \in 1..Len(PriorityOrder) :
        RuleMatches(PriorityOrder[i], message, contextLower)}

\* handleError has returned.
Handled == errOut.kind = "value"

\* The argument is an untyped Error: classifyError decides.
UntypedError ==
    /\ errIn.isError
    /\ ~(errIn.isObject /\ errIn.typeIsString /\ errIn.userMessageIsString)

\* C18: handleError passes an already-typed error through unchanged: for
\* every object with a string type and a string userMessage the result is
\* that same error, every field unchanged, whatever its message or context.
C18_TypedErrorPassesThrough ==
    (/\ Handled
     /\ errIn.isObject /\ errIn.typeIsString /\ errIn.userMessageIsString)
    => errOut = errIn

\* C18 witness: a typed Error whose message holds a classifier keyword and
\* whose type is outside the taxonomy came back as it was.
C18_Witness ==
    /\ Handled
    /\ errIn.isError /\ errIn.typeIsString /\ errIn.userMessageIsString
    /\ errIn.type = "custom"
    /\ errIn.message = "unauthorized"
    /\ errCtx = Context("Payment")
    /\ errOut.type = "custom"

\* C19: for an untyped Error the rules are tested in the order
\* authentication, authorization, rate-limit, payment, validation, network,
\* database, external-service, and the first matching rule wins.
C19_FirstMatchWins ==
    (Handled /\ UntypedError)
    => LET message == ToLowerCase(errIn.message)
           contextLower == ContextLower(errCtx)
           matching == MatchingRules(message, contextLower)
       IN  matching # {} =>
              \E i \in matching :
                  /\ \A j \in matching : i <= j
                  /\ errOut.type = PriorityOrder[i]

\* C19 witness: a message and context matching the rules of three kinds or
\* more, none of them the first kind of the order.
C19_Witness ==
    /\ Handled /\ UntypedError
    /\ LET matching == MatchingRules(ToLowerCase(errIn.message),
                                     ContextLower(errCtx))
       IN  /\ Cardinality(matching) >= 3
           /\ 1 \notin matching
           /\ errOut.type = "payment"
           /\ 5 \in matching

\* The failure matches none of the classifier's rules: an untyped Error
\* whose message and context hold no keyword, or a value that is neither an
\* Error nor a typed error.
Unmatched ==
    \/ /\ UntypedError
       /\ MatchingRules(ToLowerCase(errIn.message), ContextLower(errCtx)) = {}
    \/ /\ ~errIn.isError
       /\ ~(errIn.isObject /\ errIn.typeIsString /\ errIn.userMessageIsString)

\* C20 as claimed: a failure matching no rule is classified internal, with
\* severity critical and no remediation suggestions.
C20_UnmatchedIsCritical ==
    (Handled /\ Unmatched)
    => /\ errOut.type = "internal"
       /\ errOut.severity = "critical"
       /\ errOut.suggestions = <<>>

\* C20 amended: a failure matching no rule is classified internal, with
\* severity high, retryable, no code, and two remediation suggestions.
C20_UnmatchedIsInternalHigh ==
    (Handled /\ Unmatched)
    => /\ errOut.type = "internal"
       /\ errOut.severity = "high"
       /\ errOut.retryable
       /\ errOut.code = Undefined
       /\ Len(errOut.suggestions) = 2

\* C20 witness: an Error with no keyword in message or context, classified.
C20_Witness ==
    /\ Handled /\ UntypedError
    /\ errIn.message = "oops error"
    /\ errCtx = Context("pdf")
    /\ errOut.type = "internal"
    /\ errOut.severity = "high"

(* ------------------------ Calls on the cache -------------------------- *)

\* What a call on the cache never touches.
outsideCache == <<pdfVars, errVars, histVars, envVars, apiVars>>

\* The state of the entry a set() replaces.
Replaced(key) ==
    IF key \notin DOMAIN cache THEN "none"
    ELSE IF now - cache[key].timestamp > cache[key].ttl THEN "expired"
    ELSE "live"

\* part_000:203-211  cache.set(key, data, ttlMs), ttlMs given or defaulted.
set(key, data, given, ttlMs) ==
    LET ttl == IF given THEN ttlMs ELSE DefaultTtl IN
    /\ cache' = SetMap(cache, key, data, ttl, now)
    /\ lastCall' = Call("set", key, Undefined)
    /\ lastSet' = [lastSet EXCEPT
                      ![key] = StandingSet(data, now, ttl, Replaced(key))]
    /\ UNCHANGED <<now, cleanupInterval, outsideCache>>

\* part_000:216-230  cache.get(key)
get(key) ==
    /\ cache' = GetMap(cache, key, now)
    /\ lastCall' = Call("get", key, GetReturn(cache, key, now))
    /\ UNCHANGED <<now, cleanupInterval, lastSet, outsideCache>>

\* part_000:235-248  cache.has(key)
has(key) ==
    /\ cache' = HasMap(cache, key, now)
    /\ lastCall' = Call("has", key, HasReturn(cache, key, now))
    /\ UNCHANGED <<now, cleanupInterval, lastSet, outsideCache>>

\* part_000:253-255  cache.delete(key)
delete(key) ==
    /\ cache' = MapDelete(cache, key)
    /\ lastCall' = Call("delete", key, key \in DOMAIN cache)
    /\ lastSet' = [lastSet EXCEPT ![key] = NoSet]
    /\ UNCHANGED <<now, cleanupInterval, outsideCache>>

\* part_000:260-262  cache.clear()
clear ==
    /\ cache' = EmptyMap
    /\ lastCall' = Call("clear", "", Undefined)
    /\ lastSet' = [k \in Keys |-> NoSet]
    /\ UNCHANGED <<now, cleanupInterval, outsideCache>>

\* part_000:195-197, 267-274  the timer fires and runs cleanup().
cleanup ==
    /\ cleanupInterval
    /\ cache' = CleanupMap(cache, now)
    /\ lastCall' = Call("cleanup", "", Undefined)
    /\ UNCHANGED <<now, cleanupInterval, lastSet, outsideCache>>

\* part_000:292-298  cache.destroy(): clearInterval, then clear().
destroy ==
    /\ cleanupInterval' = FALSE
    /\ cache' = EmptyMap
    /\ lastCall' = Call("destroy", "", Undefined)
    /\ lastSet' = [k \in Keys |-> NoSet]
    /\ UNCHANGED <<now, outsideCache>>

\* part_000:448-460  invalidateCachePattern(pattern): delete(key) for each
\* key of getStats() that includes the pattern, counting them.
invalidateCachePattern(pattern) ==
    LET keys == PatternKeys(cache, pattern) IN
    /\ cache' = [k \in (DOMAIN cache) \ keys |-> cache[k]]
    /\ lastCall' = Call("invalidateCachePattern", pattern, Cardinality(keys))
    /\ lastSet' = [k \in Keys |-> IF k \in keys THEN NoSet ELSE lastSet[k]]
    /\ UNCHANGED <<now, cleanupInterval, outsideCache>>

\* A millisecond passes.
Tick ==
    /\ now < MaxTime
    /\ now' = now + 1
    /\ UNCHANGED <<cache, cleanupInterval, lastCall, lastSet, outsideCache>>

InitCache == PdfIdle /\ ErrIdle /\ CacheIdle /\ HistIdle /\ EnvIdle /\ ApiIdle

NextCache ==
    \/ \E key \in Keys, data \in Data :
          \/ \E ttlMs \in TTLs : set(key, data, TRUE, ttlMs)
          \/ set(key, data, FALSE, 0)
    \/ \E key \in Keys : get(key)
    \/ \E key \in Keys : has(key)
    \/ \E key \in Keys : delete(key)
    \/ clear
    \/ cleanup
    \/ destroy
    \/ \E pattern \in Patterns : invalidateCachePattern(pattern)
    \/ Tick

SpecCache == InitCache /\ [][NextCache]_vars

\* The entry of key is in the map and has not expired.
Live(key) ==
    /\ key \in DOMAIN cache
    /\ now - cache[key].timestamp <= cache[key].ttl

\* The map without the entry of key, every other entry as it was.
Without(key) == [k \in (DOMAIN cache) \ {key} |-> cache[k]]

\* The step is the call op(key): the cache records it as its latest call.
IsCall(op, key) == lastCall'.op = op /\ lastCall'.key = key

\* C12: a get(k) made right after set(k, v, ttl), at the same instant and
\* with no call in between, returns v; and a get(k) made when more than ttl
\* has passed since the set that stands for k returns null.
C12_RoundTripAndExpiry ==
    [][\A k \in Keys : (IsCall("get", k) /\ get(k)) =>
          /\ (/\ lastCall.op = "set"
              /\ lastCall.key = k
              /\ lastSet[k].timestamp = now) => lastCall'.ret = lastSet[k].data
          /\ (/\ lastSet[k].set
              /\ now - lastSet[k].timestamp > lastSet[k].ttl) =>
                 lastCall'.ret = Null]_vars

\* A get() found the standing set of its key expired and returned null.
C12_Witness ==
    /\ lastCall.op = "get"
    /\ lastCall.ret = Null
    /\ lastSet[lastCall.key].set
    /\ lastSet[lastCall.key].ttl > 0
    /\ now - lastSet[lastCall.key].timestamp > lastSet[lastCall.key].ttl

\* What get(k) and has(k) leave of the map: the entry of k goes when it is
\* there and expired, and nothing else changes.
AfterAccess(k) == IF k \in DOMAIN cache /\ ~Live(k) THEN Without(k) ELSE cache

\* C13: has(k) returns true exactly when the entry of k is in the map and
\* not expired, which is when get(k) returns the stored data; both remove
\* the entry of k when they find it expired and change no other entry.
C13_HasMirrorsGet ==
    [][\A k \in Keys :
          /\ (IsCall("has", k) /\ has(k)) =>
                /\ lastCall'.ret = Live(k)
                /\ cache' = AfterAccess(k)
          /\ (IsCall("get", k) /\ get(k)) =>
                /\ lastCall'.ret = IF Live(k) THEN cache[k].data ELSE Null
                /\ cache' = AfterAccess(k)]_vars

\* has() answered false for a key whose set stands, the expired entry is
\* gone and the entry of the other key is still there.
C13_Witness ==
    /\ lastCall.op = "has"
    /\ lastCall.ret = FALSE
    /\ lastSet[lastCall.key].set
    /\ lastCall.key \notin DOMAIN cache
    /\ DOMAIN cache # {}

\* C14: the sweep can run whenever its timer is set, whatever was read; a
\* sweep removes exactly the entries expired at that moment and keeps the
\* others as they are; destroy() clears the timer, which is never set
\* again, and then no sweep runs.
C14_SweepRemovesExactlyExpired ==
    [][/\ cleanupInterval => ENABLED cleanup
       /\ cleanup =>
             cache' = [k \in {j \in DOMAIN cache : Live(j)} |-> cache[k]]
       /\ destroy => ~cleanupInterval'
       /\ ~cleanupInterval =>
             /\ ~cleanupInterval'
             /\ lastCall'.op = "cleanup" => lastCall' = lastCall /\ cache' = cache
      ]_vars

\* A sweep removed an expired entry nobody read and kept a live one.
C14_Witness ==
    /\ lastCall.op = "cleanup"
    /\ \E k \in Keys : lastSet[k].set /\ k \notin DOMAIN cache
    /\ \E k \in DOMAIN cache : Live(k)

\* C15: invalidateCachePattern(pattern) removes the keys that contain the
\* pattern and no other, returns how many it removed, and leaves every
\* other entry as it was.
C15_PatternRemovesMatchingKeys ==
    [][\A p \in Patterns :
          (IsCall("invalidateCachePattern", p) /\ invalidateCachePattern(p)) =>
          /\ DOMAIN cache' = {k \in DOMAIN cache : ~Includes(k, p)}
          /\ \A k \in DOMAIN cache' : cache'[k] = cache[k]
          /\ lastCall'.ret =
                Cardinality({k \in DOMAIN cache : Includes(k, p)})]_vars

\* A pattern found inside one key removed that key and kept the other.
C15_Witness ==
    /\ lastCall.op = "invalidateCachePattern"
    /\ lastCall.key = "u1"
    /\ lastCall.ret = 1
    /\ Cardinality(DOMAIN cache) = 1

\* C16: while the latest set(k, v, ttl) stands (no delete(k) or clear()
\* came after it), get(k) returns v as long as no more than ttl has passed
\* since that set, and null afterwards; so a set that overwrites replaces
\* the value and counts the expiry from its own time with its own ttl.
C16_ReadYourLatestWrite ==
    [][\A k \in Keys : (IsCall("get", k) /\ get(k) /\ lastSet[k].set) =>
          lastCall'.ret =
             IF now - lastSet[k].timestamp <= lastSet[k].ttl
             THEN lastSet[k].data
             ELSE Null]_vars

\* A get() returned the value of a set that had replaced an expired entry.
C16_Witness ==
    /\ lastCall.op = "get"
    /\ lastSet[lastCall.key].set
    /\ lastSet[lastCall.key].over = "expired"
    /\ lastCall.ret = lastSet[lastCall.key].data

(* ---------------------- Generation history requests ------------------- *)

\* What the history route never touches.
outsideHistory ==
    <<pdfVars, errVars, cleanupInterval, lastCall, lastSet, envVars, apiVars>>

HistoryDataType == "generation_history"

\* The response leaves the handler; its locals are gone.
Respond(r, resp, noop, hit, hitChanged, age) ==
    /\ hist' = [hist EXCEPT ![r] = [IdleGet EXCEPT !.pc = "done"]]
    /\ served' = Served(hist[r].user, resp, noop, hit, hitChanged, age)

\* route.ts:197-200  a request arrives; createClient() and getUser() are
\* awaited: one of them throws, or there is no user, or the user is known.
HistoryGetUser(r) ==
    /\ hist[r].pc = "idle"
    /\ \E auth \in {"throw", "unauthorized", "ok"} :
       \E u \in IF auth = "ok" THEN Users ELSE {NoUser} :
          hist' = [hist EXCEPT ![r] =
                      [@ EXCEPT !.pc = "authed", !.auth = auth, !.user = u]]
    /\ UNCHANGED <<name_generation_logs, served, changedSince, cache, now,
                   outsideHistory>>

\* route.ts:202-227  after getUser(): 401, or the cached response, or the
\* query is sent. The response that a cache that always misses would give
\* at this moment is noted next to a cached one.
HistoryLookup(r) ==
    LET u == hist[r].user
        cached == UserDataCache_get(cache, u, HistoryDataType, now)
        key == UserDataCache_generateKey(u, HistoryDataType)
    IN
    /\ hist[r].pc = "authed"
    /\ CASE hist[r].auth = "throw" ->
              /\ Respond(r, InternalServerError, InternalServerError,
                         FALSE, FALSE, 0)
              /\ UNCHANGED cache
         [] hist[r].auth = "unauthorized" ->
              /\ Respond(r, Unauthorized, Unauthorized, FALSE, FALSE, 0)
              /\ UNCHANGED cache
         [] OTHER ->
              /\ cache' = UserDataCache_getMap(cache, u, HistoryDataType, now)
              /\ IF cached # Null
                 THEN Respond(r, Json(cached, 200),
                              Json(ResponseData(
                                       SelectLogs(name_generation_logs, u)),
                                   200),
                              TRUE, changedSince[u],
                              now - cache[key].timestamp)
                 ELSE /\ hist' = [hist EXCEPT ![r].pc = "querying"]
                      /\ UNCHANGED served
    /\ UNCHANGED <<name_generation_logs, changedSince, now, outsideHistory>>

\* route.ts:222-227  the database runs the query.
HistoryQuery(r) ==
    /\ hist[r].pc = "querying"
    /\ \E outcome \in DbOutcomes :
          hist' = [hist EXCEPT ![r] =
                      [@ EXCEPT !.pc = "fetched", !.outcome = outcome,
                                !.logs = IF outcome = "ok"
                                         THEN SelectLogs(name_generation_logs,
                                                         hist[r].user)
                                         ELSE <<>>]]
    /\ UNCHANGED <<name_generation_logs, served, changedSince, cache, now,
                   outsideHistory>>

\* route.ts:229-266  after the query: 500, or the response is computed,
\* stored in the cache and returned.
HistoryRespond(r) ==
    LET u == hist[r].user
        responseData == ResponseData(hist[r].logs)
    IN
    /\ hist[r].pc = "fetched"
    /\ CASE hist[r].outcome = "throw" ->
              /\ Respond(r, InternalServerError, InternalServerError,
                         FALSE, FALSE, 0)
              /\ UNCHANGED <<cache, changedSince>>
         [] hist[r].outcome = "error" ->
              /\ Respond(r, FetchFailed, FetchFailed, FALSE, FALSE, 0)
              /\ UNCHANGED <<cache, changedSince>>
         [] OTHER ->
              /\ cache' = UserDataCache_set(cache, u, HistoryDataType,
                                            responseData, now)
              /\ changedSince' = [changedSince EXCEPT ![u] = hist[r].changed]
              /\ Respond(r, Json(responseData, 200), Json(responseData, 200),
                         FALSE, FALSE, 0)
    /\ UNCHANGED <<name_generation_logs, now, outsideHistory>>

\* The rows of user u changed: noted for the cached response and for the
\* requests that hold rows they have read.
NoteChange(u) ==
    /\ changedSince' = [changedSince EXCEPT ![u] = TRUE]
    /\ hist' = [r \in Reqs |->
                  IF hist[r].pc = "fetched" /\ hist[r].outcome = "ok"
                                            /\ hist[r].user = u
                  THEN [hist[r] EXCEPT !.changed = TRUE]
                  ELSE hist[r]]

\* Another route logs a generation of user u.
InsertLog(u, row) ==
    /\ Len(name_generation_logs) < MaxLogs
    /\ name_generation_logs' = Append(name_generation_logs, row)
    /\ NoteChange(u)
    /\ UNCHANGED <<served, cache, now, outsideHistory>>

\* A row is removed from the table.
DeleteLog(i) ==
    /\ i \in 1..Len(name_generation_logs)
    /\ name_generation_logs' =
          SubSeq(name_generation_logs, 1, i - 1) \o
          SubSeq(name_generation_logs, i + 1, Len(name_generation_logs))
    /\ NoteChange(name_generation_logs[i].user_id)
    /\ UNCHANGED <<served, cache, now, outsideHistory>>

\* Five minutes pass.
Elapse ==
    /\ now < MaxTime * CACHE_TTL.SHORT
    /\ now' = now + CACHE_TTL.SHORT
    /\ UNCHANGED <<cache, histVars, outsideHistory>>

InitHistory == PdfIdle /\ ErrIdle /\ CacheIdle /\ HistIdle /\ EnvIdle /\ ApiIdle

NextHistory ==
    \/ \E r \in Reqs : HistoryGetUser(r)
    \/ \E r \in Reqs : HistoryLookup(r)
    \/ \E r \in Reqs : HistoryQuery(r)
    \/ \E r \in Reqs : HistoryRespond(r)
    \/ \E u \in Users : \E row \in LogRows(u) : InsertLog(u, row)
    \/ \E i \in 1..MaxLogs : DeleteLog(i)
    \/ Elapse

SpecHistory == InitHistory /\ [][NextHistory]_vars

Created == created.called /\ created.out.kind = "value"

\* A wrapped handler threw and withErrorHandler has answered.
Caught == errIn.kind = "value" /\ errResp \notin {NoJson, HandlerRunning}

\* C21: each error kind has a fixed retryable value: the result of
\* handleError for an untyped failure, and the result of createError called
\* without a retryable option, is not retryable when its type is validation,
\* authentication or authorization and retryable for every other type.
C21_RetryableFixedPerKind ==
    /\ (Handled /\ ~IsAppError(errIn)) =>
            (errOut.retryable <=>
                errOut.type \notin
                    {"validation", "authentication", "authorization"})
    /\ (Created /\ ~created.options.hasRetryable) =>
            (created.out.retryable <=>
                created.out.type \notin
                    {"validation", "authentication", "authorization"})

\* C21 happens: createError, given no retryable option, has made a payment
\* error, which is retryable.
C21_Witness ==
    /\ Created
    /\ ~created.options.hasRetryable
    /\ created.out.type = "payment"
    /\ created.out.retryable

\* C22: the status withErrorHandler answers with is a fixed function of the
\* type of the classified failure: validation 400, authentication 401,
\* authorization 403, not_found 404, conflict 409, rate_limit 429, and 500
\* for every other type; the body carries that type.
C22_StatusFollowsType ==
    Caught =>
        LET type == HandleError(errIn, NoContext).type
            status == errResp.status
        IN  /\ errResp.body.type = type
            /\ type = "validation" => status = 400
            /\ type = "authentication" => status = 401
            /\ type = "authorization" => status = 403
            /\ type = "not_found" => status = 404
            /\ type = "conflict" => status = 409
            /\ type = "rate_limit" => status = 429
            /\ type \notin {"validation", "authentication", "authorization",
                            "not_found", "conflict", "rate_limit"}
                    => status = 500

\* C22 happens: a wrapped handler threw an untyped Error that was classified
\* as a rate limit, and the response has status 429.
C22_Witness ==
    /\ Caught
    /\ UntypedError
    /\ errResp.body.type = "rate_limit"
    /\ errResp.status = 429

\* handleError has returned for the second time, and both calls were made
\* with the same failure message and the same context.
HandledTwice ==
    /\ errPrev.called
    /\ Handled
    /\ errIn.message = errPrev.error.message
    /\ errCtx = errPrev.context

\* The two results agree in type, severity, retryable and code.
SameClassification ==
    /\ errOut.type = errPrev.out.type
    /\ errOut.severity = errPrev.out.severity
    /\ errOut.retryable = errPrev.out.retryable
    /\ errOut.code = errPrev.out.code

outsideCheckout ==
    <<pdfVars, errVars, cacheVars, histVars, envVars, analytics, utilVars>>

\* user.email of the session user: missing, empty, or an address.
Emails == {Undefined, "", "u@example.com"}

\* route.ts:8-15  the JSON objects a client sends.
CheckoutBodies ==
    [productId : {Undefined, "", "prod_starter_monthly",
                  "prod_standard_credits", "prod_unknown"},
     tierId : {Undefined, "tier-hobby", "tier-9-credits", "tier-unknown"},
     productType : {Undefined, "subscription", "Subscription", "credits",
                    "chinese-name-credits", "gift"},
     credits_amount : {Absent, 0, 5},
     discountCode : {Undefined, "SAVE10"}]

\* route.ts:59-66  createClient and getUser: one of them throws, or there
\* is no session user, or there is one.
CheckoutGetUser ==
    /\ checkout.pc = "idle"
    /\ \/ checkout' = [CheckoutLocals EXCEPT !.pc = "done", !.auth = "throw",
                            !.resp = CheckoutFailed("Auth session missing!")]
       \/ checkout' = [CheckoutLocals EXCEPT !.pc = "done", !.auth = "nouser",
                            !.resp = CheckoutUnauthorized]
       \/ \E u \in Users : \E e \in Emails :
            checkout' = [CheckoutLocals EXCEPT !.pc = "body", !.auth = "user",
                            !.user = u, !.email = e]
    /\ UNCHANGED <<sessions, outsideCheckout>>

\* route.ts:68-132  request.json() settles (text that is no JSON gives {}),
\* and the handler runs on to a response or to createCheckoutSession.
CheckoutParseBody ==
    /\ checkout.pc = "body"
    /\ \E json \in {"invalid", "null", "object"} : \E sent \in CheckoutBodies :
        LET body == IF json = "object" THEN sent ELSE EmptyBody
            resolved == Resolve(body)
            credits_amount == CreditsAmount(body, resolved)
            normalizedType == NormalizedType(body, resolved.type)
            parsed == [checkout EXCEPT !.json = json, !.body = body]
        IN  /\ json # "object" => sent = EmptyBody
            /\ IF json = "null"
               THEN /\ checkout' = [parsed EXCEPT !.pc = "done", !.resp =
                        CheckoutFailed("Cannot read properties of null (reading 'productId')")]
                    /\ UNCHANGED sessions
               ELSE IF ~IsSet(CREEM_API_URL) \/ ~IsSet(CREEM_API_KEY)
               THEN /\ checkout' = [parsed EXCEPT !.pc = "done",
                                        !.resp = MissingCredentials]
                    /\ UNCHANGED sessions
               ELSE IF ~IsSet(checkout.email)
               THEN /\ checkout' = [parsed EXCEPT !.pc = "done",
                                        !.resp = EmailNotAvailable]
                    /\ UNCHANGED sessions
               ELSE /\ checkout' = [parsed EXCEPT !.pc = "session"]
                    /\ sessions' = Append(sessions,
                          SessionCall(resolved.productId, checkout.email,
                                      checkout.user, normalizedType,
                                      credits_amount, body.discountCode))
    /\ UNCHANGED outsideCheckout

\* route.ts:125-142  createCheckoutSession returns the URL or throws.
CheckoutSessionSettles ==
    /\ checkout.pc = "session"
    /\ \/ checkout' = [checkout EXCEPT !.pc = "done", !.resp = CheckoutUrl]
       \/ checkout' = [checkout EXCEPT !.pc = "done",
                            !.resp = CheckoutFailed("Creem API error: 502")]
    /\ UNCHANGED <<sessions, outsideCheckout>>

\* One checkout request, in production or development, with or without the
\* payment credentials.
InitCheckout ==
    /\ PdfIdle
    /\ ErrIdle
    /\ CacheIdle
    /\ HistIdle
    /\ ApiIdle
    /\ NODE_ENV \in {"production", "development"}
    /\ CREEM_API_URL \in {Undefined, "https://api.creem.io"}
    /\ CREEM_API_KEY \in {"", "creem_key"}

NextCheckout ==
    \/ CheckoutGetUser
    \/ CheckoutParseBody
    \/ CheckoutSessionSettles

SpecCheckout == InitCheckout /\ [][NextCheckout]_vars

\* The checkout request has been answered with an error status.
CheckoutError == checkout.pc = "done" /\ checkout.resp.status >= 400

\* C24: in production no error response carries a details field or the raw
\* message of the failure: neither the checkout route's nor a wrapped
\* handler's.
C24_NoDetailsInProduction ==
    NODE_ENV = "production" =>
        /\ CheckoutError => "details" \notin DOMAIN checkout.resp.body
        /\ Caught => "details" \notin DOMAIN errResp.body

\* C25: every error response carries a type of the taxonomy, a userMessage
\* and a retryable flag.
C25_ErrorResponseIsTyped ==
    CheckoutError =>
        /\ {"type", "userMessage", "retryable"} \subseteq DOMAIN checkout.resp.body
        /\ checkout.resp.body.type \in ErrorTypes

\* The body selects the Starter tier by its id and gives no product id.
SelectsHobby ==
    /\ checkout.body.tierId = "tier-hobby"
    /\ ~IsSet(checkout.body.productId)

\* C26: a request with tierId "tier-hobby" and no productId calls
\* createCheckoutSession with the Starter tier's productId and the type
\* "subscription", whatever productType, credits_amount and discountCode are.
C26_HobbyIsStarterSubscription ==
    \A i \in 1..Len(sessions) :
        SelectsHobby =>
            /\ sessions[i].productId = "prod_starter_monthly"
            /\ sessions[i].type = "subscription"

\* The body names no product and no tier of the configuration.
SelectsNothing ==
    /\ checkout.json # "none"
    /\ ~IsSet(checkout.body.productId)
    /\ \A i \in 1..Len(SUBSCRIPTION_TIERS) :
            SUBSCRIPTION_TIERS[i].id # checkout.body.tierId
    /\ \A i \in 1..Len(CREDITS_TIERS) :
            CREDITS_TIERS[i].id # checkout.body.tierId

\* The featured credits tier if there is one, otherwise the first.
DefaultCreditsTier ==
    IF \E i \in 1..Len(CREDITS_TIERS) : CREDITS_TIERS[i].featured
    THEN CHOOSE tier \in {CREDITS_TIERS[i] : i \in 1..Len(CREDITS_TIERS)} :
            /\ tier.featured
            /\ \E i \in 1..Len(CREDITS_TIERS) :
                /\ CREDITS_TIERS[i] = tier
                /\ \A j \in 1..(i - 1) : ~CREDITS_TIERS[j].featured
    ELSE CREDITS_TIERS[1]

\* The call is for the default credits tier, with its amount if the body
\* gave none.
CallsDefaultCredits(call) ==
    /\ call.productId = DefaultCreditsTier.productId
    /\ call.type = "credits"
    /\ checkout.body.credits_amount = Absent =>
            call.credits_amount = DefaultCreditsTier.creditAmount

\* C27 as stated: with no productId, no matching tierId and a productType
\* other than "subscription", the call is for the default credits tier.
C27_FallsBackUnlessSubscription ==
    \A i \in 1..Len(sessions) :
        (SelectsNothing /\ checkout.body.productType # "subscription")
            => CallsDefaultCredits(sessions[i])

\* C27, amended: with no productId, no matching tierId and a productType
\* that is not "subscription" in any letter case, the call is for the
\* default credits tier (the featured one, else the first): its productId,
\* type "credits", and its creditAmount when the body gives no amount.
C27_FallsBackToDefaultCredits ==
    \A i \in 1..Len(sessions) :
        (SelectsNothing
          /\ ~(IsSet(checkout.body.productType)
               /\ ToLowerCase(checkout.body.productType) = "subscription"))
            => CallsDefaultCredits(sessions[i])

\* C27 happens: a body with productType "chinese-name-credits", an unknown
\* tierId and no amount led to a call for six credits of the Standard tier.
C27_Witness ==
    /\ Len(sessions) = 1
    /\ SelectsNothing
    /\ checkout.body.productType = "chinese-name-credits"
    /\ checkout.body.tierId = "tier-unknown"
    /\ checkout.body.credits_amount = Absent
    /\ sessions[1].productId = "prod_standard_credits"
    /\ sessions[1].credits_amount = 6

\* C28: the productId passed to createCheckoutSession is always the
\* productId of a configured subscription or credits tier.
C28_ProductIsConfigured ==
    \A i \in 1..Len(sessions) :
        sessions[i].productId \in
            {SUBSCRIPTION_TIERS[k].productId : k \in 1..Len(SUBSCRIPTION_TIERS)}
            \cup {CREDITS_TIERS[k].productId : k \in 1..Len(CREDITS_TIERS)}

\* C29: an answered request without a session user got 401, one without the
\* credentials 500, one without an email 400, each with no call of
\* createCheckoutSession; every other request made exactly one call and got
\* {checkoutUrl} or 500.
C29_CheckoutOutcomes ==
    (checkout.pc = "done" /\ checkout.auth # "throw") =>
        IF checkout.auth = "nouser"
        THEN checkout.resp.status = 401 /\ sessions = <<>>
        ELSE IF ~IsSet(CREEM_API_URL) \/ ~IsSet(CREEM_API_KEY)
        THEN checkout.resp.status = 500 /\ sessions = <<>>
        ELSE IF ~IsSet(checkout.email)
        THEN checkout.resp.status = 400 /\ sessions = <<>>
        ELSE /\ Len(sessions) = 1
             /\ checkout.resp = CheckoutUrl \/ checkout.resp.status = 500


(* -------------------------- Analytics requests ------------------------ *)
(* src/app/api/analytics/route.ts  POST, one request.                      *)

\* The longest data array of a payload.
MaxEvents == 2

\* What the analytics handler never touches.
outsideAnalytics ==
    <<pdfVars, errVars, cacheVars, histVars, envVars, checkout, sessions,
      utilVars>>

\* route.ts:9-18  an element of data: an object with or without an `event`
\* field, the JSON literal null, or a number.
Elements ==
    {[is |-> "object", event |-> e] :
        e \in {"name_generated", "interaction", "conversion", "error",
               "identify", "page_scroll", Undefined}}
    \cup {[is |-> "null", event |-> Undefined],
          [is |-> "number", event |-> Undefined]}

\* The data arrays of up to MaxEvents elements.
Arrays == UNION {[1..n -> Elements] : n \in 0..MaxEvents}

\* route.ts:94-118  the processor the switch hands an element to.
ProcessorOf(event) ==
    CASE event.event = "name_generated" -> "processNameGenerationEvent"
      [] event.event = "interaction" -> "processInteractionEvent"
      [] event.event = "conversion" -> "processConversionEvent"
      [] event.event = "error" -> "processErrorEvent"
      [] event.event = "identify" -> "processIdentifyEvent"
      [] OTHER -> "processGenericEvent"

\* route.ts:50-53
InvalidPayload == Json([error |-> "Invalid analytics payload"], 400)

\* route.ts:61-64
InvalidType == Json([error |-> "Invalid analytics type"], 400)

\* route.ts:67
AnalyticsSuccess == Json([success |-> TRUE], 200)

\* route.ts:69-75
AnalyticsFailed == Json([error |-> "Failed to process analytics data"], 500)

\* route.ts:46-65  request.json() settles: it throws on text that is no
\* JSON; otherwise the payload is validated and handed to its processor.
\* `data` is what the payload holds there: nothing, null, a string, an
\* object, or an array.
AnalyticsParse ==
    /\ analytics.pc = "idle"
    /\ \E json \in {"invalid", "null", "number", "object"} :
       \E type \in {Undefined, "", "events", "page_views", "clicks"} :
       \E data \in {"missing", "null", "string", "object", "array"} :
       \E events \in Arrays :
        LET parsed == [AnalyticsLocals EXCEPT !.json = json, !.type = type,
                                              !.data = data, !.events = events]
        IN  /\ json # "object" => type = Undefined /\ data = "missing"
            /\ data # "array" => events = <<>>
            /\ analytics' =
                 IF json \in {"invalid", "null"}
                 THEN [parsed EXCEPT !.pc = "done", !.resp = AnalyticsFailed]
                 ELSE IF ~IsSet(type) \/ data \in {"missing", "null"}
                         \/ data # "array"
                 THEN [parsed EXCEPT !.pc = "done", !.resp = InvalidPayload]
                 ELSE IF type = "events"
                 THEN [parsed EXCEPT !.pc = "processEvents"]
                 ELSE IF type = "page_views"
                 THEN [parsed EXCEPT !.pc = "processPageViews"]
                 ELSE [parsed EXCEPT !.pc = "done", !.resp = InvalidType]
    /\ UNCHANGED outsideAnalytics

\* route.ts:93-119  the loop of processEvents takes the next element;
\* reading `event` of null throws into the handler's catch.
AnalyticsProcessEvent ==
    /\ analytics.pc = "processEvents"
    /\ Len(analytics.processed) < Len(analytics.events)
    /\ LET event == analytics.events[Len(analytics.processed) + 1]
       IN  analytics' =
             IF event.is = "null"
             THEN [analytics EXCEPT !.pc = "done", !.resp = AnalyticsFailed]
             ELSE [analytics EXCEPT !.processed =
                        Append(analytics.processed, ProcessorOf(event))]
    /\ UNCHANGED outsideAnalytics

\* route.ts:56-67  processEvents has gone through the array.
AnalyticsEventsDone ==
    /\ analytics.pc = "processEvents"
    /\ Len(analytics.processed) = Len(analytics.events)
    /\ analytics' = [analytics EXCEPT !.pc = "done", !.resp = AnalyticsSuccess]
    /\ UNCHANGED outsideAnalytics

\* route.ts:58-67 and 125-142  processPageViews reads no element.
AnalyticsPageViewsDone ==
    /\ analytics.pc = "processPageViews"
    /\ analytics' = [analytics EXCEPT !.pc = "done", !.resp = AnalyticsSuccess]
    /\ UNCHANGED outsideAnalytics

InitAnalytics ==
    /\ PdfIdle
    /\ ErrIdle
    /\ CacheIdle
    /\ HistIdle
    /\ ApiIdle
    /\ NODE_ENV \in {"production", "development"}
    /\ CREEM_API_URL = "https://api.creem.io"
    /\ CREEM_API_KEY = "creem_key"

NextAnalytics ==
    \/ AnalyticsParse
    \/ AnalyticsProcessEvent
    \/ AnalyticsEventsDone
    \/ AnalyticsPageViewsDone

SpecAnalytics == InitAnalytics /\ [][NextAnalytics]_vars

\* The payload is an object of type "events" or "page_views" whose data is
\* an array.
WellFormedPayload ==
    /\ analytics.json = "object"
    /\ analytics.type \in {"events", "page_views"}
    /\ analytics.data = "array"

\* C30: an answered analytics request got {success: true} if its payload was
\* well formed, and 400 if it was not: no type, no array data, a type other
\* than the two, or a body that is no JSON.
C30_SuccessOr400 ==
    analytics.pc = "done" =>
        IF WellFormedPayload THEN analytics.resp = AnalyticsSuccess
        ELSE analytics.resp.status = 400

(* ---------------------- the loader, seen by callers -------------------- *)

\* The imports in flight.
Pending(ls) == {i \in 1..Len(ls) : ls[i] = "pending"}

\* Request r comes back from getPuppeteer in this step.
Arrives(r) == req[r].pc = "avail" /\ req'[r].pc # "avail"

\* An import is started in this step.
Imports == Len(loads') > Len(loads)

\* C31: at most one import is in flight at any time; a caller arriving
\* while a load is in flight starts none and is answered by that load's
\* outcome; no import is started once a load has succeeded; a failed load
\* leaves the loader reset, and the next caller starts a fresh import.
C31_SingleSharedLoad ==
    [][/\ Cardinality(Pending(loads')) <= 1
       /\ Imports => ~puppeteer /\ Pending(loads) = {}
       /\ \A r \in Reqs :
            /\ (Arrives(r) /\ Pending(loads) # {}) =>
                   /\ ~Imports
                   /\ req'[r].pc = "availWait"
                   /\ req'[r].awaiting \in Pending(loads)
            /\ (req[r].pc = "availWait" /\ req'[r].pc # "availWait") =>
                   /\ loads[req[r].awaiting] # "pending"
                   /\ req'[r].available = "yes"
                          <=> loads[req[r].awaiting] = "fulfilled"
            /\ (Arrives(r) /\ puppeteer) =>
                   ~Imports /\ req'[r].available = "yes"
            /\ (Arrives(r) /\ ~puppeteer /\ Pending(loads) = {}) =>
                   /\ Imports
                   /\ req'[r].awaiting \in Pending(loads')
       /\ \A i \in Pending(loads) :
            loads'[i] = "rejected" =>
                ~isPuppeteerLoading' /\ puppeteerLoadPromise' = 0 /\ ~puppeteer'
      ]_vars

\* C31 happens: one load failed, both requests had waited for it and both
\* were told so, and no second import was made.
C31_Witness ==
    /\ loads = <<"rejected">>
    /\ ~isPuppeteerLoading /\ puppeteerLoadPromise = 0
    /\ \A r \in Reqs : req[r].available = "no" /\ req[r].resp = JsonError(503)

(* --------------------- every request is answered ----------------------- *)

\* Every awaited call of a request in flight returns or throws, and every
\* import in flight settles.  Arrivals are not forced.
Fairness ==
    /\ \A r \in Reqs :
        /\ WF_vars(GetUser(r))
        /\ WF_vars(ParseBody(r))
        /\ WF_vars(CheckAvailable(r))
        /\ WF_vars(AvailabilityKnown(r))
        /\ WF_vars(FetchCustomer(r))
        /\ WF_vars(GenerateNameCertificate(r))
        /\ WF_vars(UpdateCredits(r))
        /\ WF_vars(InsertHistory(r))
    /\ WF_vars(\E i \in 1..MaxLoads : ImportSettles(i))

SpecLive == Init /\ [][Next]_vars /\ Fairness

\* The position of a handler in route.ts:31-189, in the order of the code.
Rank(pc) ==
    CASE pc = "idle" -> 0
      [] pc = "auth" -> 1
      [] pc = "body" -> 2
      [] pc \in {"avail", "availWait"} -> 3
      [] pc = "fetch" -> 4
      [] pc = "render" -> 5
      [] pc = "update" -> 6
      [] pc = "insert" -> 7
      [] pc = "done" -> 8

\* Unauthenticated, Authenticated, Entitled, SideEffectInProgress (the render
\* and the accounting that follows it), and the terminal states.
Phase(pc) ==
    CASE Rank(pc) <= 1 -> "Unauthenticated"
      [] Rank(pc) \in 2..4 -> "Authenticated"
      [] Rank(pc) = 5 -> "Entitled"
      [] Rank(pc) \in 6..7 -> "SideEffectInProgress"
      [] Rank(pc) = 8 -> "Terminal"

PhaseOrder == <<"Unauthenticated", "Authenticated", "Entitled", "SideEffectInProgress", "Terminal">>

PhaseIndex(ph) == CHOOSE i \in 1..Len(PhaseOrder) : PhaseOrder[i] = ph

Statuses == {401, 400, 503, 403, 200, 500}

\* C32: every request that has arrived is answered, once its awaited calls
\* return or throw; it moves forward only, through Unauthenticated,
\* Authenticated, Entitled and SideEffectInProgress or from any of them to
\* the end; it has no response before the end and one response at the end,
\* with status 401, 400, 503, 403, 200 or 500; nothing of it changes after.
C32_AnsweredOnce ==
    /\ \A r \in Reqs : (req[r].pc # "idle") ~> (req[r].pc = "done")
    /\ [][\A r \in Reqs :
            /\ Rank(req'[r].pc) >= Rank(req[r].pc)
            /\ PhaseIndex(Phase(req'[r].pc)) \in
                   {PhaseIndex(Phase(req[r].pc)),
                    PhaseIndex(Phase(req[r].pc)) + 1,
                    PhaseIndex("Terminal")}
            /\ req'[r].pc # "done" => req'[r].resp = NoResponse
            /\ req'[r].pc = "done" => req'[r].resp.status \in Statuses
            /\ req[r].pc = "done" => req'[r] = req[r]
      ]_vars

\* C32 happens: every request has arrived and has been answered, one with the
\* PDF and one with an error.
C32_Witness ==
    /\ \A r \in Reqs : req[r].pc = "done"
    /\ \E r \in Reqs : req[r].resp = PdfResponse
    /\ \E r \in Reqs : req[r].resp.status \in Statuses \ {200}

(* ------------------------- the order of the gates ---------------------- *)

NoSession(r) ==
    req[r].auth = "returned" /\ (req[r].authError \/ req[r].user = NoUser)

\* request.json() has returned the body of request r.
Parsed(r) ==
    /\ req[r].auth = "returned" /\ ~NoSession(r)
    /\ Rank(req[r].pc) > Rank("body")
    /\ req[r].body.json

\* The steps after the 400 gate that request r has not taken.
NotChecked(r) == req[r].available = "unknown" /\ req[r].awaiting = 0

NotRead(r) == req[r].fetchOutcome = "none" /\ req[r].reads = 0

NotRendered(r) ==
    /\ req[r].rendered = "none" /\ req[r].renders = 0
    /\ req[r].updates = 0 /\ req[r].inserts = 0

\* C33: the gates are passed in the order session, fields, renderer, balance
\* read, balance, and the first one that fails gives the response, with none
\* of the later steps taken: 401, else 400, else 503, else 500 for a balance
\* read that returned an error, else 403; a render is attempted only by a
\* request that passed them all.
C33_FirstFailingGateDecides ==
    \A r \in Reqs :
        /\ NoSession(r) =>
              /\ req[r].pc = "done" /\ req[r].resp = JsonError(401)
              /\ req[r].body = IdleReq.body
              /\ NotChecked(r) /\ NotRead(r) /\ NotRendered(r)
        /\ (Parsed(r) /\ ~WellFormed(req[r].body)) =>
              /\ req[r].pc = "done" /\ req[r].resp = JsonError(400)
              /\ NotChecked(r) /\ NotRead(r) /\ NotRendered(r)
        /\ req[r].available = "no" =>
              /\ Parsed(r) /\ WellFormed(req[r].body)
              /\ req[r].pc = "done" /\ req[r].resp = JsonError(503)
              /\ NotRead(r) /\ NotRendered(r)
        /\ req[r].fetchOutcome = "error" =>
              /\ Parsed(r) /\ WellFormed(req[r].body)
              /\ req[r].available = "yes"
              /\ req[r].pc = "done" /\ req[r].resp = JsonError(500)
              /\ NotRendered(r)
        /\ (req[r].fetchOutcome = "ok" /\ req[r].customer.credits < 1) =>
              /\ Parsed(r) /\ WellFormed(req[r].body)
              /\ req[r].available = "yes"
              /\ req[r].pc = "done"
              /\ req[r].resp = InsufficientCreditsResponse(req[r].customer)
              /\ req[r].resp.status = 403
              /\ NotRendered(r)
        /\ (req[r].pc = "render" \/ req[r].renders > 0) =>
              /\ Parsed(r) /\ WellFormed(req[r].body)
              /\ req[r].available = "yes"
              /\ req[r].fetchOutcome = "ok"
              /\ req[r].customer.present /\ req[r].customer.credits >= 1

\* C33 happens: a customer with 0 credits, a session and both fields was
\* answered 503 after a failed load, and the balance was never read.
C33_Witness ==
    \E r \in Reqs :
        /\ req[r].pc = "done"
        /\ req[r].user # NoUser
        /\ initial[req[r].user] = 0
        /\ req[r].available = "no"
        /\ req[r].resp.status = 503
        /\ req[r].reads = 0

(* ----------------------- charged only when served ---------------------- *)

\* C34: a request answered with a status other than 200 has not changed the
\* balance and has appended no credits_history row, a database write that
\* throws after a successful render included.
C34_ChargedOnlyWhenServed ==
    \A r \in Reqs :
        (req[r].pc = "done" /\ req[r].resp.status # 200) =>
            /\ req[r].updateOutcome # "ok"
            /\ req[r].insertOutcome # "ok"

(* ----------------- the history route reads through the cache ----------- *)

HistoryKey(u) == "user_data:" \o u \o ":generation_history"

\* Request r goes on from the position pc in this step.
Leaves(r, pc) == hist[r].pc = pc /\ hist'[r].pc # pc

\* Request r is answered in this step, with resp.
Answers(r, resp) ==
    /\ hist'[r].pc = "done"
    /\ served'.made /\ served'.user = hist[r].user /\ served'.resp = resp

\* C35: a request without a session is answered 401 and leaves the cache
\* and the table alone; a request that finds its user's entry in the cache,
\* not expired, is answered with the cached data and sends no query; on a
\* miss the query is sent; a query that succeeds is answered with the
\* computed data, stored under the user's key with a TTL of five minutes,
\* and a query that fails is answered 500 and stores nothing.
C35_ReadThrough ==
    [][\A r \in Reqs :
        LET u == hist[r].user
            k == HistoryKey(u)
        IN
        /\ (Leaves(r, "authed") /\ hist[r].auth = "unauthorized") =>
              /\ Answers(r, Unauthorized)
              /\ cache' = cache
              /\ name_generation_logs' = name_generation_logs
        /\ (Leaves(r, "authed") /\ hist[r].auth = "ok" /\ Live(k)) =>
              /\ Answers(r, Json(cache[k].data, 200))
              /\ cache' = cache
        /\ (Leaves(r, "authed") /\ hist[r].auth = "ok" /\ ~Live(k)) =>
              /\ hist'[r].pc = "querying"
              /\ served' = served
              /\ cache' = AfterAccess(k)
        /\ hist'[r].pc = "querying" =>
              hist[r].pc \in {"authed", "querying"} /\ hist[r].auth = "ok"
        /\ (Leaves(r, "fetched") /\ hist[r].outcome = "ok") =>
              /\ Answers(r, Json(ResponseData(hist[r].logs), 200))
              /\ DOMAIN cache' = DOMAIN cache \cup {k}
              /\ cache'[k] = [data |-> ResponseData(hist[r].logs),
                              timestamp |-> now, ttl |-> 5 * 60 * 1000]
              /\ \A j \in DOMAIN cache \ {k} : cache'[j] = cache[j]
        /\ (Leaves(r, "fetched") /\ hist[r].outcome # "ok") =>
              /\ hist'[r].pc = "done"
              /\ served'.made /\ served'.resp.status = 500
              /\ cache' = cache
      ]_vars

\* C35 happens: some time after the start a request missed, its query
\* returned rows, and its response is the one entry of the cache, under the
\* key of its user.
C35_Witness ==
    \E u \in Users :
        /\ served.made /\ served.user = u /\ ~served.hit
        /\ served.resp.status = 200
        /\ Len(served.resp.body.logs) > 0
        /\ DOMAIN cache = {HistoryKey(u)}
        /\ cache[HistoryKey(u)].data = served.resp.body
        /\ cache[HistoryKey(u)].timestamp > 0

(* ----------------------- isolation between customers ------------------- *)

\* Both routes of route.ts.  POST touches the customers, the ledger and the
\* loader; GET touches name_generation_logs and the cache; neither reads
\* what the other writes, so a behaviour with requests to both is an
\* interleaving of a behaviour of each, and the routes are run from the
\* common start one at a time.
NextIsolation ==
    \/ HistIdle /\ CacheIdle /\ Next
    \/ PdfIdle /\ NextHistory

SpecIsolation == Init /\ [][NextIsolation]_vars

\* The rows of a response body, or of cached data, are all of user u.
OnlyOf(data, u) == \A i \in 1..Len(data.logs) : data.logs[i].user_id = u

\* C36: a step of a PDF request of user A changes the credits of no customer
\* but A's and appends no credits_history row but one of A's customer; the
\* rows a history request has fetched, the rows stored under a user's key
\* and the rows of a response are rows of the user of that request, that
\* key, that response; a response taken from the cache is the data stored
\* under the key of the user it answers.
C36_CustomersIsolated ==
    [][/\ \A r \in Reqs : req'[r] # req[r] =>
            /\ \A u \in Users \ {req'[r].user} : customers'[u] = customers[u]
            /\ \/ credits_history' = credits_history
               \/ /\ Len(credits_history') = Len(credits_history) + 1
                  /\ SubSeq(credits_history', 1, Len(credits_history)) = credits_history
                  /\ req[r].user # NoUser
                  /\ credits_history'[Len(credits_history')].customer_id
                         = customers[req[r].user].id
       /\ (\A r \in Reqs : req'[r] = req[r]) =>
            customers' = customers /\ credits_history' = credits_history
       /\ \A r \in Reqs :
            \A i \in 1..Len(hist'[r].logs) :
                hist'[r].logs[i].user_id = hist'[r].user
       /\ \A u \in Users :
            HistoryKey(u) \in DOMAIN cache' =>
                OnlyOf(cache'[HistoryKey(u)].data, u)
       /\ (served'.made /\ served'.resp.status = 200) =>
            /\ served'.user # NoUser
            /\ OnlyOf(served'.resp.body, served'.user)
       /\ (served' # served /\ served'.hit) =>
            /\ HistoryKey(served'.user) \in DOMAIN cache
            /\ served'.resp.body = cache[HistoryKey(served'.user)].data
      ]_vars

\* C36 happens: the requests of two users were both charged, each customer
\* paying one credit and the ledger holding one row of each.
C36_Witness ==
    \E r1, r2 \in Reqs :
        /\ req[r1].user = "u1" /\ req[r2].user = "u2"
        /\ req[r1].insertOutcome = "ok" /\ req[r2].insertOutcome = "ok"
        /\ \A u \in Users : customers[u].credits = initial[u] - 1
        /\ {credits_history[i].customer_id : i \in 1..Len(credits_history)}
               = {CustomerId(u) : u \in Users}

(* ------------------- the type sent to the checkout --------------------- *)

\* C37: the type passed to createCheckoutSession is the type of the product
\* the body resolved to ("subscription" for a subscription tier, "credits"
\* for a credits tier), whatever the productType field holds.
C37_TypeIsResolvedType ==
    \A i \in 1..Len(sessions) :
        sessions[i].type = Resolve(checkout.body).type

(* ---------------------------------------------------------------------- *)
(* src/unnamed/part_000:69-136  generatePDF, called on its own.            *)
(* ---------------------------------------------------------------------- *)

MaxCalls == 2

Calls == 1..MaxCalls

\* What the rest of the module keeps while generatePDF is called.
outsideGenerate ==
    <<pdfVars, errVars, cacheVars, histVars, envVars, checkout, sessions,
      analytics, wrapped>>

\* new Error(message)
ErrorOf(message) == [kind |-> "Error", message |-> message]

\* What an awaited call of puppeteer rejects with: an Error (a TimeoutError
\* is one), a thrown string, or undefined.
Rejections == {ErrorOf("timeout"), [kind |-> "text"], [kind |-> "undefined"]}

NoRejection == [kind |-> "none"]

\* The locals of a call of generatePDF: whether `browser` was assigned, how
\* often browser.close() was called, whether the browser runs, the step that
\* failed first, what the inner catch holds, and how the call ended.
IdleCall ==
    [pc |-> "idle", browser |-> FALSE, closes |-> 0, running |-> FALSE,
     failed |-> "none", caught |-> NoRejection, out |-> NoRejection]

\* part_000:133-136  the outer catch: what generatePDF throws.
OuterCatch(error) ==
    IF error.kind = "Error"
    THEN ErrorOf("PDF generation failed: " \o error.message)
    ELSE ErrorOf("Unknown PDF generation error")

\* part_000:129  throw new Error(`...${puppeteerError.message}`): reading
\* .message of undefined is a TypeError, of a string gives undefined.
InnerThrow(puppeteerError) ==
    CASE puppeteerError.kind = "Error" ->
            ErrorOf("Puppeteer generation failed: " \o puppeteerError.message)
      [] puppeteerError.kind = "text" ->
            ErrorOf("Puppeteer generation failed: undefined")
      [] OTHER ->
            ErrorOf("Cannot read properties of undefined (reading 'message')")

\* The call ends: the error reaches the outer catch, which throws.
Throws(call, error) == [call EXCEPT !.pc = "done", !.out = OuterCatch(error)]

\* The inner catch rethrowing at once, the browser left as it is.
CatchPuppeteerError_NoClose(call, step, puppeteerError) ==
    Throws([call EXCEPT !.failed = step], InnerThrow(puppeteerError))

\* part_000:125-130  the inner catch: close the browser if there is one,
\* then throw.
CatchPuppeteerError(call, step, puppeteerError) ==
    IF call.browser
    THEN [call EXCEPT !.pc = "catchClose", !.failed = step,
                      !.caught = puppeteerError]
    ELSE Throws([call EXCEPT !.failed = step], InnerThrow(puppeteerError))

\* part_000:69-73  generatePDF is called and awaits getPuppeteer().
GeneratePDF(c) ==
    /\ pdfCalls[c].pc = "idle"
    /\ pdfCalls' = [pdfCalls EXCEPT ![c].pc = "getPuppeteer"]
    /\ UNCHANGED outsideGenerate

\* part_000:74  getPuppeteer() resolves, or rejects with its Error.
AwaitGetPuppeteer(c) ==
    /\ pdfCalls[c].pc = "getPuppeteer"
    /\ \/ pdfCalls' = [pdfCalls EXCEPT ![c].pc = "launch"]
       \/ pdfCalls' = [pdfCalls EXCEPT ![c] =
             Throws([@ EXCEPT !.failed = "getPuppeteer"],
                    ErrorOf("Failed to load Puppeteer: not found"))]
    /\ UNCHANGED outsideGenerate

\* part_000:79-96  puppeteer.launch() resolves and `browser` is assigned, or
\* rejects.
AwaitLaunch(c) ==
    /\ pdfCalls[c].pc = "launch"
    /\ \/ pdfCalls' = [pdfCalls EXCEPT ![c].pc = "newPage",
                                       ![c].browser = TRUE,
                                       ![c].running = TRUE]
       \/ \E v \in Rejections :
             pdfCalls' = [pdfCalls EXCEPT ![c] =
                             CatchPuppeteerError(@, "launch", v)]
    /\ UNCHANGED outsideGenerate

\* The awaited calls between launch and close, in the order of the code.
PageSteps == <<"newPage", "setContent", "pdf", "close">>

\* part_000:98-119  browser.newPage(), page.setContent() and page.pdf(), each
\* resolving or rejecting (a timeout is a rejection).
AwaitPage(c) ==
    /\ \E i \in 1..3 :
          /\ pdfCalls[c].pc = PageSteps[i]
          /\ \/ pdfCalls' = [pdfCalls EXCEPT ![c].pc = PageSteps[i + 1]]
             \/ \E v \in Rejections :
                   pdfCalls' = [pdfCalls EXCEPT ![c] =
                                   CatchPuppeteerError(@, PageSteps[i], v)]
    /\ UNCHANGED outsideGenerate

\* part_000:121-123  browser.close() in the try: it resolves and the buffer
\* is returned, or it rejects into the inner catch.
AwaitClose(c) ==
    /\ pdfCalls[c].pc = "close"
    /\ \/ pdfCalls' = [pdfCalls EXCEPT ![c].pc = "done",
                                       ![c].closes = @ + 1,
                                       ![c].running = FALSE,
                                       ![c].out = [kind |-> "buffer"]]
       \/ \E v \in Rejections :
             pdfCalls' = [pdfCalls EXCEPT ![c] =
                 CatchPuppeteerError([@ EXCEPT !.closes = @ + 1], "close", v)]
    /\ UNCHANGED outsideGenerate

\* part_000:126-129  browser.close() in the inner catch: it resolves and the
\* catch throws its Error, or it rejects and that goes to the outer catch.
AwaitCatchClose(c) ==
    /\ pdfCalls[c].pc = "catchClose"
    /\ \/ pdfCalls' = [pdfCalls EXCEPT ![c] =
             Throws([@ EXCEPT !.closes = @ + 1, !.running = FALSE],
                    InnerThrow(@.caught))]
       \/ \E v \in Rejections :
             pdfCalls' = [pdfCalls EXCEPT ![c] =
                             Throws([@ EXCEPT !.closes = @ + 1], v)]
    /\ UNCHANGED outsideGenerate

InitGenerate ==
    /\ PdfIdle /\ ErrIdle /\ CacheIdle /\ HistIdle /\ EnvIdle /\ RoutesIdle
    /\ wrapped = <<>>
    /\ pdfCalls = [c \in Calls |-> IdleCall]

NextGenerate ==
    \/ \E c \in Calls : GeneratePDF(c)
    \/ \E c \in Calls : AwaitGetPuppeteer(c)
    \/ \E c \in Calls : AwaitLaunch(c)
    \/ \E c \in Calls : AwaitPage(c)
    \/ \E c \in Calls : AwaitClose(c)
    \/ \E c \in Calls : AwaitCatchClose(c)

SpecGenerate == InitGenerate /\ [][NextGenerate]_vars

\* C38: a call of generatePDF that has ended and had launched the browser
\* has called browser.close() before; a call in which any awaited step
\* failed has ended by throwing an Error, and only a call with no failure
\* has returned the buffer.
C38_BrowserClosedAndFailuresThrown ==
    \A c \in Calls :
        pdfCalls[c].pc = "done" =>
            /\ pdfCalls[c].browser => pdfCalls[c].closes >= 1
            /\ pdfCalls[c].failed # "none" =>
                  /\ pdfCalls[c].out.kind = "Error"
                  /\ pdfCalls[c].out.message # ""
            /\ pdfCalls[c].failed = "none" =>
                  /\ pdfCalls[c].out = [kind |-> "buffer"]
                  /\ pdfCalls[c].browser /\ ~pdfCalls[c].running

\* C38 happens: page.pdf() timed out after the browser was launched; the
\* browser was closed and the call threw.
C38_Witness ==
    \E c \in Calls :
        /\ pdfCalls[c].pc = "done"
        /\ pdfCalls[c].failed = "pdf"
        /\ pdfCalls[c].caught = ErrorOf("timeout")
        /\ pdfCalls[c].browser /\ pdfCalls[c].closes = 1
        /\ ~pdfCalls[c].running
        /\ pdfCalls[c].out =
              ErrorOf("PDF generation failed: Puppeteer generation failed: timeout")

(* ---------------------------------------------------------------------- *)
(* src/unnamed/part_000:315-342  withCache: one wrapped function, its      *)
(* calls interleaved at the await of fn.                                   *)
(* ---------------------------------------------------------------------- *)

\* What the rest of the module keeps while the wrapped function is called.
outsideWithCache ==
    <<pdfVars, errVars, cleanupInterval, lastCall, lastSet, histVars, envVars,
      checkout, sessions, analytics, pdfCalls>>

Args == {"a", "b"}

\* The keyGenerator given to withCache.
KeyGenerator(arg) == "wrapped:" \o arg

\* part_000:317  ttlMs: number = CACHE_TTL.MEDIUM
WithCacheTtl == CACHE_TTL.MEDIUM

\* What fn resolves to when call c invokes it: a value of that invocation,
\* or null.
Resolutions(c) == {[result |-> c], Null}

Rejected == [rejected |-> TRUE]

NotReturned == [returned |-> FALSE]

\* The locals of a call of the wrapped function: its key, when it was made,
\* whether it invoked fn, and what it returned.
IdleWrapped ==
    [pc |-> "idle", key |-> "", at |-> 0, invoked |-> FALSE,
     ret |-> NotReturned]

\* part_000:320-331  the wrapped function is called: the key, cache.get and
\* the test of its result; on a miss fn is invoked and awaited.
WithCacheCall(c) ==
    /\ wrapped[c].pc = "idle"
    /\ \E arg \in Args :
          LET cacheKey == KeyGenerator(arg)
              cached == GetReturn(cache, cacheKey, now)
          IN  /\ cache' = GetMap(cache, cacheKey, now)
              /\ IF cached # Null
                 THEN wrapped' = [wrapped EXCEPT ![c] =
                         [@ EXCEPT !.pc = "done", !.key = cacheKey,
                                   !.at = now, !.ret = cached]]
                 ELSE wrapped' = [wrapped EXCEPT ![c] =
                         [@ EXCEPT !.pc = "fn", !.key = cacheKey,
                                   !.at = now, !.invoked = TRUE]]
    /\ UNCHANGED <<now, outsideWithCache>>

\* part_000:338-341  fn settles: its result is stored and returned, or its
\* rejection leaves the wrapper before the set.
FnSettles(c) ==
    /\ wrapped[c].pc = "fn"
    /\ \/ \E result \in Resolutions(c) :
             /\ cache' = SetMap(cache, wrapped[c].key, result, WithCacheTtl, now)
             /\ wrapped' = [wrapped EXCEPT ![c].pc = "done", ![c].ret = result]
       \/ /\ wrapped' = [wrapped EXCEPT ![c].pc = "done", ![c].ret = Rejected]
          /\ UNCHANGED cache
    /\ UNCHANGED <<now, outsideWithCache>>

\* Time passes, a TTL at a time.
WithCacheElapse ==
    /\ now < MaxTime * WithCacheTtl
    /\ now' = now + WithCacheTtl
    /\ UNCHANGED <<cache, wrapped, outsideWithCache>>

InitWithCache ==
    /\ PdfIdle /\ ErrIdle /\ CacheIdle /\ HistIdle /\ EnvIdle /\ RoutesIdle
    /\ pdfCalls = <<>>
    /\ wrapped = [c \in Calls |-> IdleWrapped]

NextWithCache ==
    \/ \E c \in Calls : WithCacheCall(c)
    \/ \E c \in Calls : FnSettles(c)
    \/ WithCacheElapse

SpecWithCache == InitWithCache /\ [][NextWithCache]_vars

\* The calls made with key k so far.
CallsOf(k) == {c \in Calls : wrapped[c].pc # "idle" /\ wrapped[c].key = k}

\* The calls with key k made within ttlMs of the first of them.
WithinTtl(k) ==
    {c \in CallsOf(k) :
        \A d \in CallsOf(k) : wrapped[c].at - wrapped[d].at <= WithCacheTtl}

\* C39: among the calls with one key made within ttlMs of the first, fn is
\* invoked by one only (an invocation that rejected apart), and the calls
\* that have returned have returned one and the same result.
C39_OncePerKeyWithinTtl ==
    \A k \in {KeyGenerator(arg) : arg \in Args} :
        /\ Cardinality({c \in WithinTtl(k) :
               wrapped[c].invoked /\ wrapped[c].ret # Rejected}) <= 1
        /\ \A c, d \in WithinTtl(k) :
              (wrapped[c].pc = "done" /\ wrapped[d].pc = "done"
                 /\ wrapped[c].ret # Rejected /\ wrapped[d].ret # Rejected)
              => wrapped[c].ret = wrapped[d].ret

(* ------------------- what the context string decides ------------------- *)

\* The kinds whose rule reads the context.
ContextKinds == {"payment", "database", "external_service"}

\* The kinds tested before the payment rule.
EarlierKinds == {"authentication", "authorization", "rate_limit"}

\* The context handleError was called with, as classifyError reads it.
GivenContext == IF errCtx.given THEN ToLowerCase(errCtx.text) ELSE ""

\* The rule of one of the kinds matches the lowercased message alone.
MessageMatches(kinds) ==
    \E kind \in kinds : RuleMatches(kind, ToLowerCase(errIn.message), "")

\* C40: the result of handleError differs from the result without a context
\* only for an untyped Error that no earlier rule claims, and then its type
\* is payment, database or external_service; with a context containing
\* "payment" or "checkout" an untyped Error whose message matches none of
\* the authentication, authorization and rate-limit rules is classified
\* payment, whatever else its message matches; the response of
\* withErrorHandler has a context kind only when the message itself matches
\* that kind's rule.
C40_ContextOnlyInThreeRules ==
    /\ Handled =>
          /\ errOut # HandleError(errIn, NoContext) =>
                /\ UntypedError
                /\ ~MessageMatches(EarlierKinds)
                /\ errOut.type \in ContextKinds
          /\ (/\ UntypedError
              /\ \/ Includes(GivenContext, "payment")
                 \/ Includes(GivenContext, "checkout")
              /\ ~MessageMatches(EarlierKinds))
             => errOut.type = "payment"
    /\ (Caught /\ UntypedError /\ errResp.body.type \in ContextKinds) =>
          MessageMatches({errResp.body.type})

\* C40 happens: an Error whose message matches the validation and network
\* rules, handed over with the context "checkout", was classified payment.
C40_Witness ==
    /\ Handled
    /\ UntypedError
    /\ errCtx = Context("checkout")
    /\ RuleMatches("validation", ToLowerCase(errIn.message), "")
    /\ RuleMatches("network", ToLowerCase(errIn.message), "")
    /\ ~RuleMatches("payment", ToLowerCase(errIn.message), "")
    /\ errOut.type = "payment"

====
